---- MODULE Spec2Model ----
(***************************************************************************)
(* Kiosk / PAX payment terminal integration.                               *)
(*                                                                         *)
(* The module models the bridge service layer (paxBridgeService, the       *)
(* full-SDK variant): the response normaliser parseResponse and the        *)
(* terminal session adapter (setTcpSetting, init, doCreditRequest,         *)
(* doGiftRequest, batchClose, cancel, remove) on top of the vendor bridge  *)
(* PaxTerminalModule, which is a black box at this layer: every call to it *)
(* resolves with a value or rejects with an error.                         *)
(*                                                                         *)
(* On top of the service sits the payment screen (PaymentScreen): its      *)
(* React state, the handlers the user can trigger in each step, and the    *)
(* continuations of those handlers after each await.  A collaborator call  *)
(* that a handler awaits stays in flight until it settles; user events     *)
(* and other settlements interleave with it.                               *)
(*                                                                         *)
(* JavaScript values are modelled as tagged records [t, s]: t is the       *)
(* typeof-like tag, s the payload (text of a string, decimal text of a     *)
(* number, "true"/"false" of a boolean).  Objects carry their fields in f. *)
(***************************************************************************)
EXTENDS Integers, Sequences, FiniteSets, Bags, TLC

VARIABLES
    json,       \* normaliser: the raw mapping handed to parseResponse
    result,     \* normaliser: completion of parseResponse(json)
    again,      \* normaliser: completion of parseResponse(result value)
    pc,         \* normaliser: "input" | "parsed" | "reparsed" | "off"
    op,         \* adapter: the last operation called and its argument
    outcome,    \* adapter: how that operation completed
    opCalls,    \* adapter: the vendor bridge calls that operation made
    paymentStep,      \* screen: useState paymentStep
    giftCardNumber,   \* screen: useState giftCardNumber (text as characters)
    giftCardBalance,  \* screen: useState giftCardBalance (null or a number)
    isProcessing,     \* screen: useState isProcessing
    error,            \* screen: useState error (null or a string)
    route,            \* screen: "payment" | "order-complete" | "back"
    alert,            \* screen: the "Cancel Payment?" prompt is showing
    flights,          \* screen: bag of awaited collaborator calls not yet settled
    ev,               \* screen: the step taken last and the calls it issued
    paxInitialized,   \* screen: useState paxInitialized
    initPax,          \* screen: the mount effect: "loadSettings" | "init" | "done"
    terminal,         \* native module: the Terminal? field (NoTerminal or a handle)
    ipAddress,        \* native module: the ipAddress field
    port,             \* native module: the port field
    isInitialized,    \* native module: the isInitialized field
    sdk,              \* native module: the handles POSLinkSemi has handed out
    nat,              \* native module: the handler run last and what it did
    now,              \* the device's wall clock, what Date.now() returns
    refs              \* the trace references of the attempts started so far

vars == <<json, result, again, pc, op, outcome, opCalls,
          paymentStep, giftCardNumber, giftCardBalance, isProcessing, error,
          route, alert, flights, ev, paxInitialized, initPax,
          terminal, ipAddress, port, isInitialized, sdk, nat, now, refs>>

parseVars == <<json, result, again, pc>>
adapterVars == <<op, outcome, opCalls>>
uiVars == <<paymentStep, giftCardNumber, giftCardBalance, isProcessing, error>>
mountVars == <<paxInitialized, initPax>>
screenVars == <<uiVars, route, alert, flights, ev, mountVars>>
moduleVars == <<terminal, ipAddress, port, isInitialized, sdk, nat>>
traceVars == <<now, refs>>

-----------------------------------------------------------------------------
(* JavaScript values                                                       *)

UNDEF == [t |-> "undefined", s |-> ""]
NULL == [t |-> "null", s |-> ""]
Str(x) == [t |-> "string", s |-> x]
Num(x) == [t |-> "number", s |-> x]
Bool(x) == [t |-> "boolean", s |-> x]

\* An Error instance with the given message, and the marker of a TypeError
\* raised by a property read on null or undefined.
Err(m) == [t |-> "Error", s |-> m]
TypeError == Err("Cannot read properties of null or undefined")

\* v is null or undefined: the operands ?? skips.
Nullish(v) == v.t \in {"undefined", "null"}

\* a ?? b
Coalesce(a, b) == IF Nullish(a) THEN b ELSE a

\* ToBoolean(v): what if (v) and !v test.
Truthy(v) ==
    CASE v.t \in {"undefined", "null"} -> FALSE
      [] v.t = "string" -> v.s # ""
      [] v.t = "number" -> v.s \notin {"0", "NaN"}
      [] v.t = "boolean" -> v.s = "true"
      [] OTHER -> TRUE

\* String(v)
JSString(v) ==
    CASE v.t = "undefined" -> Str("undefined")
      [] v.t = "null" -> Str("null")
      [] v.t = "string" -> v
      [] v.t = "number" -> Str(v.s)
      [] v.t = "boolean" -> Str(v.s)
      [] v.t = "Error" -> Str(v.s)
      [] OTHER -> Str("[object Object]")

\* a === b on primitives
StrictEq(a, b) == a.t = b.t /\ a.s = b.s

-----------------------------------------------------------------------------
(* Raw vendor responses                                                    *)

HostKeys == {"hostResponseMessage", "HostResponseMessage",
             "hostResponseCode", "HostResponseCode"}

NoHostFields == [k \in HostKeys |-> UNDEF]

\* A value found under hostInformation / HostInformation: a primitive, or an
\* object with the four host fields (UNDEF = the key is absent).
HostPrim(v) == [t |-> v.t, s |-> v.s, f |-> NoHostFields]
HostObj(hm, hM, hc, hC) ==
    [t |-> "object", s |-> "",
     f |-> [hostResponseMessage |-> hm, HostResponseMessage |-> hM,
            hostResponseCode |-> hc, HostResponseCode |-> hC]]

NoHost == HostPrim(UNDEF)

\* A top-level value: the mapping with its six keys, or JSON null.
Raw(rc, rC, rm, rM, h, H) ==
    [t |-> "object", s |-> "",
     f |-> [ResponseCode |-> rc, responseCode |-> rC,
            ResponseMessage |-> rm, responseMessage |-> rM,
            hostInformation |-> h, HostInformation |-> H]]

EmptyObject == Raw(UNDEF, UNDEF, UNDEF, UNDEF, NoHost, NoHost)
JsonNull == [t |-> "null", s |-> "", f |-> EmptyObject.f]

\* Property read v.k: throws on null and undefined, is undefined on a
\* primitive, is the field on an object.
Throws(v) == Nullish(v)
Get(v, k) == IF v.t = "object" THEN v.f[k] ELSE UNDEF

-----------------------------------------------------------------------------
(* Completions and the normalised result                                   *)

NoValue == [responseCode |-> UNDEF, responseMessage |-> UNDEF,
            rawData |-> EmptyObject, isSuccess |-> FALSE]

Pending == [kind |-> "none", value |-> NoValue, error |-> UNDEF]
Return(v) == [kind |-> "return", value |-> v, error |-> UNDEF]
Throw(e) == [kind |-> "throw", value |-> NoValue, error |-> e]

-----------------------------------------------------------------------------
(* Response normaliser: parseResponse                                      *)

\* json.ResponseCode ?? json.responseCode ?? 'ERROR'
TopCode_UpperOnly(j) == Coalesce(Get(j, "ResponseCode"), Str("ERROR"))
TopCode(j) ==
    Coalesce(Coalesce(Get(j, "ResponseCode"), Get(j, "responseCode")), Str("ERROR"))

\* json.ResponseMessage ?? json.responseMessage ?? 'Unknown Error'
TopMessage_NoDefault(j) ==
    Coalesce(Get(j, "ResponseMessage"), Get(j, "responseMessage"))
TopMessage(j) ==
    Coalesce(Coalesce(Get(j, "ResponseMessage"), Get(j, "responseMessage")),
             Str("Unknown Error"))

\* json.hostInformation ?? json.HostInformation
HostBlock_UpperFirst(j) ==
    Coalesce(Get(j, "HostInformation"), Get(j, "hostInformation"))
HostBlock(j) == Coalesce(Get(j, "hostInformation"), Get(j, "HostInformation"))

\* if (host)
ProbeHost_Unguarded(host) == TRUE
ProbeHost(host) == Truthy(host)

\* host.hostResponseMessage ?? host.HostResponseMessage
HostMessage_LowerOnly(host) == Get(host, "hostResponseMessage")
HostMessage(host) ==
    Coalesce(Get(host, "hostResponseMessage"), Get(host, "HostResponseMessage"))

\* host.hostResponseCode ?? host.HostResponseCode
HostCode(host) ==
    Coalesce(Get(host, "hostResponseCode"), Get(host, "HostResponseCode"))

\* isSuccess: String(code) === '000000'
IsSuccess_NotError(code) == ~StrictEq(JSString(code), Str("ERROR"))
IsSuccess(code) == StrictEq(JSString(code), Str("000000"))

parseResponse(j) ==
    LET code0 == TopCode(j)
        msg0 == TopMessage(j)
        probe == StrictEq(code0, Str("ERROR")) /\ StrictEq(msg0, Str("Unknown Error"))
        host == HostBlock(j)
        inHost == probe /\ ProbeHost(host)
        hMsg == HostMessage(host)
        hCode == HostCode(host)
        msg == IF inHost /\ Truthy(hMsg) THEN JSString(hMsg) ELSE msg0
        code == IF inHost /\ Truthy(hCode) THEN JSString(hCode)
                ELSE IF inHost /\ Truthy(hMsg) THEN Str("DECLINED")
                ELSE code0
    IN  IF Throws(j) \/ (inHost /\ Throws(host))
        THEN Throw(TypeError)
        ELSE Return([responseCode |-> JSString(code),
                     responseMessage |-> JSString(msg),
                     rawData |-> j,
                     isSuccess |-> IsSuccess(code)])

\* A normalised result read back as a mapping: it has the keys responseCode,
\* responseMessage, rawData and isSuccess, none of the capitalised aliases
\* and no top-level host block.
AsRaw(v) == Raw(UNDEF, v.responseCode, UNDEF, v.responseMessage, NoHost, NoHost)

-----------------------------------------------------------------------------
(* Inputs of the normaliser                                                *)

ResponseCodeValues ==
    {UNDEF, NULL, Str(""), Str("000000"), Str("ERROR"), Num("5")}
responseCodeValues == {UNDEF, Str("000000")}
ResponseMessageValues ==
    {UNDEF, NULL, Str(""), Str("Unknown Error"), Str("APPROVED")}
responseMessageValues == {UNDEF, Str("OK")}

HostObjects ==
    {HostObj(hm, hM, hc, hC) :
        hm \in {UNDEF, NULL, Str(""), Str("DO NOT HONOR")},
        hM \in {UNDEF, Str("INVALID CARD")},
        hc \in {UNDEF, Str(""), Str("000000"), Num("5")},
        hC \in {UNDEF, Str("51")}}

HostPrimitives ==
    {HostPrim(v) : v \in {UNDEF, NULL, Str(""), Str("x"), Num("0"), Num("7"),
                          Bool("false"), Bool("true")}}

hostInformationValues == HostPrimitives \cup HostObjects
HostInformationValues ==
    {NoHost,
     HostObj(Str("CALL ISSUER"), UNDEF, UNDEF, UNDEF),
     HostObj(UNDEF, Str("PICK UP CARD"), UNDEF, Str("04"))}

RawInputs ==
    {Raw(rc, rC, rm, rM, h, H) :
        rc \in ResponseCodeValues, rC \in responseCodeValues,
        rm \in ResponseMessageValues, rM \in responseMessageValues,
        h \in hostInformationValues, H \in HostInformationValues}

-----------------------------------------------------------------------------
(* Terminal session adapter: values                                        *)

\* Longest address text the model enumerates.
MaxAddrLen == 2

\* Characters of an address: a blank and a non-blank.
AddrChars == {" ", "1"}

AddrTexts == UNION {[1..n -> AddrChars] : n \in 0..MaxAddrLen}

\* The ip argument: a string (its characters) or undefined.
NoIp == [t |-> "undefined", chars |-> <<>>]
IpValues == {NoIp} \cup {[t |-> "string", chars |-> c] : c \in AddrTexts}

\* String.prototype.trim on the characters of a string.
RECURSIVE TrimStart(_)
TrimStart(c) ==
    IF c = <<>> THEN c
    ELSE IF Head(c) = " " THEN TrimStart(Tail(c)) ELSE c

RECURSIVE TrimEnd(_)
TrimEnd(c) ==
    IF c = <<>> THEN c
    ELSE IF c[Len(c)] = " " THEN TrimEnd(SubSeq(c, 1, Len(c) - 1)) ELSE c

Trim(c) == TrimEnd(TrimStart(c))

\* !ip || ip.trim() === ''
IpRejected(ip) == ip.t = "undefined" \/ ip.chars = <<>> \/ Trim(ip.chars) = <<>>

\* Entry mode presets.
EntryMode(m, s, c, n, q) ==
    [manual |-> m, swipe |-> s, chip |-> c, contactless |-> n, scan |-> q]
EntryModePresets ==
    [qr |-> EntryMode(FALSE, FALSE, FALSE, FALSE, TRUE),
     nfc |-> EntryMode(FALSE, FALSE, FALSE, TRUE, FALSE),
     swipe |-> EntryMode(FALSE, TRUE, TRUE, FALSE, FALSE),
     all |-> EntryMode(TRUE, TRUE, TRUE, TRUE, TRUE)]

\* Requests handed to doCreditRequest / doGiftRequest (DoCreditRequest).
NoRequest == [transactionType |-> "", EntryMode |-> EntryModePresets["all"]]
Requests ==
    {[transactionType |-> "SALE", EntryMode |-> EntryModePresets[m]] :
        m \in {"qr", "nfc", "swipe", "all"}}

\* What a vendor bridge call settles with: it rejects with an error, or it
\* resolves with a boolean (setTcpSetting), nothing (cancel, remove) or a
\* text; the text is JSON of a value, or not JSON at all.
Rejects(e) ==
    [threw |-> TRUE, error |-> e, bool |-> FALSE, parses |-> FALSE, value |-> JsonNull]
ResolvesBool(b) ==
    [threw |-> FALSE, error |-> UNDEF, bool |-> b, parses |-> FALSE, value |-> JsonNull]
ResolvesText(v) ==
    [threw |-> FALSE, error |-> UNDEF, bool |-> FALSE, parses |-> TRUE, value |-> v]
ResolvesGarbage ==
    [threw |-> FALSE, error |-> UNDEF, bool |-> FALSE, parses |-> FALSE, value |-> JsonNull]
ResolvesVoid == ResolvesGarbage

\* Errors the bridge rejects with: an Error instance and a bare string.
BridgeErrors == {Err("No Android context available. Please try again."),
                 Str("E_UNEXPECTED")}

SyntaxError == Err("Unexpected token in JSON")

VendorMappings ==
    {Raw(rc, rC, rm, UNDEF, h, NoHost) :
        rc \in {UNDEF, Str("000000"), Str("ERROR")},
        rC \in {UNDEF, Str("000000")},
        rm \in {UNDEF, Str("APPROVED")},
        h \in {NoHost, HostObj(Str("DO NOT HONOR"), UNDEF, Str("000000"), UNDEF)}}

BoolReplies == {ResolvesBool(TRUE), ResolvesBool(FALSE)} \cup {Rejects(e) : e \in BridgeErrors}
TextReplies ==
    {Rejects(e) : e \in BridgeErrors} \cup {ResolvesGarbage, ResolvesText(JsonNull)}
        \cup {ResolvesText(m) : m \in VendorMappings}
VoidReplies == {ResolvesVoid} \cup {Rejects(e) : e \in BridgeErrors}

\* One call of the vendor bridge PaxTerminalModule.<fn> and how it settled.
Call(fn, body, reply) == [fn |-> fn, body |-> body, reply |-> reply]

\* How an adapter operation completes.
NoOutcome == [kind |-> "none", bool |-> FALSE, res |-> NoValue, error |-> UNDEF]
Resolved(b) == [kind |-> "return", bool |-> b, res |-> NoValue, error |-> UNDEF]
ResolvedWith(v) == [kind |-> "return", bool |-> FALSE, res |-> v, error |-> UNDEF]
ResolvedVoid == [kind |-> "return", bool |-> FALSE, res |-> NoValue, error |-> UNDEF]
Rejected(e) == [kind |-> "throw", bool |-> FALSE, res |-> NoValue, error |-> e]

Ran(out, calls) == [out |-> out, calls |-> calls]

-----------------------------------------------------------------------------
(* Terminal session adapter: operations                                    *)

\* errorResponse(e)
errorResponse(e) ==
    [responseCode |-> Str("ERROR"),
     responseMessage |-> IF e.t = "Error" THEN Str(e.s) ELSE JSString(e),
     rawData |-> EmptyObject,
     isSuccess |-> FALSE]

\* JSON.parse(respStr)
JSONparse(r) == IF r.parses THEN Return(r.value) ELSE Throw(SyntaxError)

\* setTcpSetting(ip, port, timeout): r is how the bridge call would settle.
setTcpSettingRun_NoValidation(ip, r) ==
    Ran(IF r.threw THEN Rejected(r.error) ELSE Resolved(r.bool),
        <<Call("setTcpSetting", "", r)>>)
setTcpSettingRun_Swallow(ip, r) ==
    IF IpRejected(ip) THEN Ran(Resolved(FALSE), <<>>)
    ELSE Ran(IF r.threw THEN Resolved(FALSE) ELSE Resolved(r.bool),
             <<Call("setTcpSetting", "", r)>>)
setTcpSettingRun(ip, r) ==
    IF IpRejected(ip) THEN Ran(Resolved(FALSE), <<>>)
    ELSE Ran(IF r.threw THEN Rejected(r.error) ELSE Resolved(r.bool),
             <<Call("setTcpSetting", "", r)>>)

\* String(resp?.ResponseCode) === '000000'
InitOk(resp) ==
    StrictEq(JSString(IF Nullish(resp) THEN UNDEF ELSE Get(resp, "ResponseCode")),
             Str("000000"))

\* init(ip, port, timeout): r1 settles the bridge's setTcpSetting, r2 its init.
initRun_IgnoreTcp(ip, r1, r2) ==
    LET c1 == Call("setTcpSetting", "", r1)
        c2 == Call("init", "", r2)
        parsed == JSONparse(r2)
    IN  IF r1.threw THEN Ran(Resolved(FALSE), <<c1>>)
        ELSE IF r2.threw THEN Ran(Resolved(FALSE), <<c1, c2>>)
        ELSE IF parsed.kind = "throw" THEN Ran(Resolved(FALSE), <<c1, c2>>)
        ELSE Ran(Resolved(InitOk(parsed.value)), <<c1, c2>>)
initRun(ip, r1, r2) ==
    LET c1 == Call("setTcpSetting", "", r1)
        c2 == Call("init", "", r2)
        parsed == JSONparse(r2)
    IN  IF r1.threw THEN Ran(Resolved(FALSE), <<c1>>)
        ELSE IF ~r1.bool THEN Ran(Resolved(FALSE), <<c1>>)
        ELSE IF r2.threw THEN Ran(Resolved(FALSE), <<c1, c2>>)
        ELSE IF parsed.kind = "throw" THEN Ran(Resolved(FALSE), <<c1, c2>>)
        ELSE Ran(Resolved(InitOk(parsed.value)), <<c1, c2>>)

\* try { parseResponse(JSON.parse(await bridge call)) } catch (e) { errorResponse(e) }
RequestOutcome_NoCatch(r) ==
    LET parsed == JSONparse(r)
        normal == parseResponse(parsed.value)
    IN  IF r.threw THEN Rejected(r.error)
        ELSE IF parsed.kind = "throw" THEN Rejected(parsed.error)
        ELSE IF normal.kind = "throw" THEN Rejected(normal.error)
        ELSE ResolvedWith(normal.value)
RequestOutcome(r) ==
    LET parsed == JSONparse(r)
        normal == parseResponse(parsed.value)
    IN  IF r.threw THEN ResolvedWith(errorResponse(r.error))
        ELSE IF parsed.kind = "throw" THEN ResolvedWith(errorResponse(parsed.error))
        ELSE IF normal.kind = "throw" THEN ResolvedWith(errorResponse(normal.error))
        ELSE ResolvedWith(normal.value)

\* try { await bridge call } catch (e) { console.error(...) }
CleanupOutcome_Rethrow(r) == IF r.threw THEN Rejected(r.error) ELSE ResolvedVoid
CleanupOutcome(r) == ResolvedVoid

AdapterIdle ==
    /\ op = [name |-> "none", ip |-> NoIp, req |-> NoRequest]
    /\ outcome = NoOutcome
    /\ opCalls = <<>>

-----------------------------------------------------------------------------
(* Payment screen: values                                                  *)

\* The order total (grandTotal of the kiosk store), in whole currency units.
GrandTotal == 2

\* How many awaited collaborator calls may be unsettled at the same time.
MaxFlights == 2

\* giftCardNumber.length < 4 is refused by the balance check.
MinCardLen == 4

PaymentSteps == {"select", "card_processing", "gift_card_method_select",
                 "gift_card_entry", "gift_card_processing"}

\* Texts of the gift-card number field: empty, too short, and two cards.
CardTexts == {<<>>, <<"1", "2">>, <<"1", "1", "1", "1">>, <<"2", "2", "2", "2">>}

\* giftCardBalance: null, or the number a balance check returned.
NoBalance == [known |-> FALSE, amount |-> 0]
Balance(b) == [known |-> TRUE, amount |-> b]
BalanceValues == {GrandTotal - 1, GrandTotal}

\* rawData?.accountInformation?.account of a terminal reply: absent or a text.
NoAccount == [present |-> FALSE, text |-> <<>>]
Account(n) == [present |-> TRUE, text |-> n]
AccountValues == {NoAccount} \cup {Account(n) : n \in CardTexts \ {<<"1", "2">>}}

\* What the terminal bridge replies to a transaction request of the screen:
\* a rejection, an approval, a decline with a message, and an error reply
\* with an empty message.
Approved == Raw(Str("000000"), UNDEF, Str("APPROVED"), UNDEF, NoHost, NoHost)
Declined == Raw(Str("100001"), UNDEF, Str("DECLINED"), UNDEF, NoHost, NoHost)
SilentError == Raw(Str("ERROR"), UNDEF, Str(""), UNDEF, NoHost, NoHost)
TerminalReplies ==
    {Rejects(Err("No Android context available. Please try again.")),
     ResolvesText(Approved), ResolvesText(Declined), ResolvesText(SilentError)}

\* How the other collaborators settle.  submitOrder: true, false or a
\* rejection; checkBalance: null, a status-less result, a balance, or a
\* rejection; redeem: null, success, failure with or without a description,
\* or a rejection.
Settled(kind, ok, amount, text) ==
    [kind |-> kind, ok |-> ok, amount |-> amount, text |-> text]
CollaboratorErrors == {Err("Network request failed"), Str("timeout")}
SubmitOutcomes ==
    {Settled("return", b, 0, UNDEF) : b \in BOOLEAN}
        \cup {Settled("throw", FALSE, 0, e) : e \in CollaboratorErrors}
BalanceOutcomes ==
    {Settled("null", FALSE, 0, UNDEF), Settled("return", FALSE, 0, UNDEF)}
        \cup {Settled("return", TRUE, b, UNDEF) : b \in BalanceValues}
        \cup {Settled("throw", FALSE, 0, e) : e \in CollaboratorErrors}
RedeemOutcomes ==
    {Settled("null", FALSE, 0, UNDEF), Settled("return", TRUE, 0, UNDEF),
     Settled("return", FALSE, 0, UNDEF), Settled("return", FALSE, 0, Str("Card inactive"))}
        \cup {Settled("throw", FALSE, 0, e) : e \in CollaboratorErrors}

\* An awaited collaborator call: which call, the handler that awaits it, and
\* the gift-card number a balance check was asked about.
Flight(call, by, number) == [call |-> call, by |-> by, number |-> number]

\* The step taken last: its name, the calls it issued, in order, and how the
\* call it resumed from came back: "ok", "failed" (a result that reports
\* failure), "nodata" (success without a card number), "threw", or "" for a
\* step the user took.
Event(name, calls, came) ==
    [name |-> name, calls |-> calls, came |-> came, req |-> NoRequest]

\* A step of the user that sends the terminal a transaction request.
Sends(name, call, req) == [name |-> name, calls |-> <<call>>, came |-> "", req |-> req]

\* How a settled collaborator call came back, as an event records it.
Came(o) ==
    IF o.kind = "throw" THEN "threw"
    ELSE IF o.kind = "return" /\ o.ok THEN "ok"
    ELSE "failed"

\* e instanceof Error ? e.message : fallback
MessageOf(e, fallback) == IF e.t = "Error" THEN Str(e.s) ELSE Str(fallback)

\* The screen as mounted: the initial useState values, nothing in flight.
ScreenIdle ==
    /\ paymentStep = "select"
    /\ giftCardNumber = <<>>
    /\ giftCardBalance = NoBalance
    /\ isProcessing = FALSE
    /\ error = NULL
    /\ route = "payment"
    /\ alert = FALSE
    /\ flights = EmptyBag
    /\ ev = Event("mount", <<>>, "")
    /\ paxInitialized = FALSE

\* The mount effect initPax: about to load the settings, or over without
\* having initialised the terminal (no address configured).
EffectStarts == initPax = "loadSettings"
EffectOver == initPax = "done"

-----------------------------------------------------------------------------
(* Native module (Kotlin): the values its handlers see and hand back       *)

MaxHandles == 3
DefaultPort == 10009

\* The Terminal? field: null, or one of the handles POSLinkSemi hands out.
NoTerminal == 0
Handles == 1..MaxHandles

\* A Kotlin String?: null or a text.
KNull == [known |-> FALSE, text |-> ""]
KText(s) == [known |-> TRUE, text |-> s]

\* x ?: d
Elvis(x, d) == IF x.known THEN x.text ELSE d

\* The addresses the JS side passes to setTcpSetting.
NativeIps == {"10.0.0.1", "10.0.0.2"}

\* appContext.currentActivity / appContext.reactContext at the time of the
\* call: an Activity, only the React context, or neither.
Contexts == {"activity", "react", "none"}

\* POSLinkSemi.getTerminal: a handle, null, or an exception.
GetTerminalOutcomes == {"handle", "null", "throws"}

\* What a handler hands back to JS: a JSON text (its ResponseCode and
\* ResponseMessage), a boolean, nothing, or a rejection.
NativeJson(code, message) ==
    [kind |-> "json", code |-> code, message |-> message, bool |-> FALSE]
NativeBool(b) == [kind |-> "bool", code |-> "", message |-> "", bool |-> b]
NativeUnit == [kind |-> "unit", code |-> "", message |-> "", bool |-> FALSE]
NativeThrows(message) ==
    [kind |-> "throw", code |-> "", message |-> message, bool |-> FALSE]
NotCalled == [kind |-> "none", code |-> "", message |-> "", bool |-> FALSE]

ErrorJson(message) == NativeJson("ERROR", message)

\* The result of a call on the SDK terminal (manage.init, transaction.doCredit,
\* transaction.doDebit, batch.batchClose): an ExecutionResult with isSuccessful,
\* response() and message(), or an exception with its message.
NoResponse == [present |-> FALSE, code |-> "", message |-> ""]
Response(code, message) == [present |-> TRUE, code |-> code, message |-> message]
ExecutionResult(ok, response, message) ==
    [threw |-> FALSE, isSuccessful |-> ok, response |-> response, message |-> message]
SdkThrew(message) ==
    [threw |-> TRUE, isSuccessful |-> FALSE, response |-> NoResponse, message |-> message]
SdkResults ==
    { ExecutionResult(TRUE, Response("000000", "OK"), KNull),
      ExecutionResult(TRUE, NoResponse, KNull),
      ExecutionResult(FALSE, NoResponse, KText("TIMEOUT")),
      ExecutionResult(FALSE, NoResponse, KNull),
      SdkThrew(KText("Connection refused")),
      SdkThrew(KNull) }

\* What a handler did: its name, the handle held when it started, the handles
\* it passed to removeTerminal, the handle it called the SDK terminal on (or
\* NoTerminal), and what it handed back.
Did(name, held, released, used, reply) ==
    [name |-> name, held |-> held, released |-> released, used |-> used,
     reply |-> reply]

\* The clock at the start, no attempt started yet.
ClockIdle == now = 0 /\ refs = <<>>

\* The module as constructed: the initial values of its fields.
ModuleIdle ==
    /\ terminal = NoTerminal
    /\ ipAddress = ""
    /\ port = DefaultPort
    /\ isInitialized = FALSE
    /\ sdk = [made |-> 0, live |-> {}]
    /\ nat = Did("none", NoTerminal, <<>>, NoTerminal, NotCalled)

-----------------------------------------------------------------------------
(* Normaliser as a state machine: parse a raw mapping, then parse the      *)
(* normalised result again.                                                *)

InitParse ==
    /\ json \in RawInputs
    /\ result = Pending
    /\ again = Pending
    /\ pc = "input"
    /\ AdapterIdle
    /\ ScreenIdle /\ EffectOver
    /\ ModuleIdle /\ ClockIdle

ParseStep ==
    /\ pc = "input"
    /\ result' = parseResponse(json)
    /\ pc' = "parsed"
    /\ UNCHANGED <<json, again, adapterVars, screenVars, moduleVars, traceVars>>

ReparseStep ==
    /\ pc = "parsed"
    /\ result.kind = "return"
    /\ again' = parseResponse(AsRaw(result.value))
    /\ pc' = "reparsed"
    /\ UNCHANGED <<json, result, adapterVars, screenVars, moduleVars, traceVars>>

NextParse == ParseStep \/ ReparseStep

SpecParse == InitParse /\ [][NextParse]_vars

-----------------------------------------------------------------------------
(* Terminal session adapter as a state machine: each action is one call of *)
(* an exported operation, run to completion against the vendor bridge.     *)

ParseIdle ==
    /\ json = EmptyObject
    /\ result = Pending
    /\ again = Pending
    /\ pc = "off"

Init == ParseIdle /\ AdapterIdle /\ ScreenIdle /\ EffectOver /\ ModuleIdle /\ ClockIdle

setTcpSetting ==
    \E ip \in IpValues, r \in BoolReplies :
        LET run == setTcpSettingRun(ip, r)
        IN  /\ op' = [name |-> "setTcpSetting", ip |-> ip, req |-> NoRequest]
            /\ outcome' = run.out
            /\ opCalls' = run.calls
            /\ UNCHANGED <<parseVars, screenVars, moduleVars, traceVars>>

init ==
    \E ip \in IpValues, r1 \in BoolReplies, r2 \in TextReplies :
        LET run == initRun(ip, r1, r2)
        IN  /\ op' = [name |-> "init", ip |-> ip, req |-> NoRequest]
            /\ outcome' = run.out
            /\ opCalls' = run.calls
            /\ UNCHANGED <<parseVars, screenVars, moduleVars, traceVars>>

doCreditRequest ==
    \E req \in Requests, r \in TextReplies :
        /\ op' = [name |-> "doCreditRequest", ip |-> NoIp, req |-> req]
        /\ outcome' = RequestOutcome(r)
        /\ opCalls' = <<Call("doCredit", "request", r)>>
        /\ UNCHANGED <<parseVars, screenVars, moduleVars, traceVars>>

doGiftRequest ==
    \E req \in Requests, r \in TextReplies :
        /\ op' = [name |-> "doGiftRequest", ip |-> NoIp, req |-> req]
        /\ outcome' = RequestOutcome(r)
        /\ opCalls' = <<Call("doGift", "request", r)>>
        /\ UNCHANGED <<parseVars, screenVars, moduleVars, traceVars>>

\* The draft adapter's batchClose: the bridge is called without a payload.
batchClose_NoPayload ==
    \E r \in TextReplies :
        /\ op' = [name |-> "batchClose", ip |-> NoIp, req |-> NoRequest]
        /\ outcome' = RequestOutcome(r)
        /\ opCalls' = <<Call("batchClose", "", r)>>
        /\ UNCHANGED <<parseVars, screenVars, moduleVars, traceVars>>

batchClose ==
    \E r \in TextReplies :
        /\ op' = [name |-> "batchClose", ip |-> NoIp, req |-> NoRequest]
        /\ outcome' = RequestOutcome(r)
        /\ opCalls' = <<Call("batchClose", "{}", r)>>
        /\ UNCHANGED <<parseVars, screenVars, moduleVars, traceVars>>

cancel ==
    \E r \in VoidReplies :
        /\ op' = [name |-> "cancel", ip |-> NoIp, req |-> NoRequest]
        /\ outcome' = CleanupOutcome(r)
        /\ opCalls' = <<Call("cancel", "", r)>>
        /\ UNCHANGED <<parseVars, screenVars, moduleVars, traceVars>>

remove ==
    \E r \in VoidReplies :
        /\ op' = [name |-> "remove", ip |-> NoIp, req |-> NoRequest]
        /\ outcome' = CleanupOutcome(r)
        /\ opCalls' = <<Call("remove", "", r)>>
        /\ UNCHANGED <<parseVars, screenVars, moduleVars, traceVars>>

Next ==
    \/ setTcpSetting
    \/ init
    \/ doCreditRequest
    \/ doGiftRequest
    \/ batchClose
    \/ cancel
    \/ remove

Spec == Init /\ [][Next]_vars

-----------------------------------------------------------------------------
(* Payment screen as a state machine.  A handler runs from the user's tap  *)
(* to its first await in one step; each await settles in a later step,     *)
(* which runs the handler on to its next await or to its end.  State       *)
(* setters take effect while the screen is mounted (route "payment").      *)

\* EntryModePresets[method] ?? EntryModePresets.all
EntryModeFor_NoFallback(method) ==
    IF method \in DOMAIN EntryModePresets THEN EntryModePresets[method]
    ELSE EntryMode(FALSE, FALSE, FALSE, FALSE, FALSE)
EntryModeFor(method) ==
    IF method \in DOMAIN EntryModePresets THEN EntryModePresets[method]
    ELSE EntryModePresets["all"]

\* The request doCredit / doGift build for { TransType: "SALE", method }.
RequestFor(method) == [transactionType |-> "SALE", EntryMode |-> EntryModeFor(method)]

\* PaxBridgeService.doCredit / doGift: the result of the transaction request.
RepliesSeen == [r \in TerminalReplies |-> RequestOutcome(r).res]
doCredit(r) == RepliesSeen[r]
doGift(r) == RepliesSeen[r]

\* The setState calls of one step, applied together.
SetState(s, n, b, p, e) ==
    IF route = "payment"
    THEN /\ paymentStep' = s
         /\ giftCardNumber' = n
         /\ giftCardBalance' = b
         /\ isProcessing' = p
         /\ error' = e
    ELSE UNCHANGED uiVars

\* The user can press what the screen shows: nothing once the screen is
\* left, only the prompt's buttons while the prompt is showing.
Interactive == route = "payment" /\ ~alert

Await(f) == flights' = flights (+) SetToBag({f})
Settle(f) == flights' = flights (-) SetToBag({f})
Continue(f, g) == flights' = (flights (-) SetToBag({f})) (+) SetToBag({g})
InFlight == BagToSet(flights)
CanAwait == BagCardinality(flights) < MaxFlights

\* giftCardBalance !== null && giftCardBalance >= grandTotal: the primary
\* button of the gift-card entry step is "Pay", not "Check Balance".
PrimaryIsRedeem == giftCardBalance.known /\ giftCardBalance.amount >= GrandTotal

\* giftCardBalance === null || giftCardBalance < grandTotal
RedeemBlocked_NullOnly(b) == ~b.known
RedeemBlocked(b) == ~b.known \/ b.amount < GrandTotal

\* !giftCardNumber || giftCardNumber.length < 4
NumberRefused(n) == n = <<>> \/ Len(n) < MinCardLen

\* result.responseMessage || "Payment Declined"
DeclineMessage_Nullish(res) == Coalesce(res.responseMessage, Str("Payment Declined"))
DeclineMessage(res) ==
    IF Truthy(res.responseMessage) THEN res.responseMessage ELSE Str("Payment Declined")

\* "Card" button of the select step.
handleCardPayment ==
    /\ Interactive /\ paymentStep = "select" /\ CanAwait
    /\ SetState("card_processing", giftCardNumber, giftCardBalance, TRUE, NULL)
    /\ Await(Flight("doCredit", "card", <<>>))
    /\ ev' = Sends("handleCardPayment", "doCredit", RequestFor("all"))
    /\ UNCHANGED <<route, alert>>

\* handleCardPayment after await PaxBridgeService.doCredit(...): on to the
\* order submission, or to select with an error; again says whether a
\* declined request is sent once more.
\* if (!result.isSuccess) throw ...: the order is submitted only past it.
PaymentAccepted_AnyResult(res) == TRUE
PaymentAccepted(res) == res.isSuccess

CardPaymentAnswered(again_) ==
    \E r \in TerminalReplies :
        LET f == Flight("doCredit", "card", <<>>)
            res == doCredit(r)
            msg == DeclineMessage(res)
            came == IF res.isSuccess THEN "ok" ELSE "failed"
        IN  /\ f \in InFlight
            /\ IF PaymentAccepted(res)
               THEN /\ Continue(f, Flight("submitOrder", "card", <<>>))
                    /\ ev' = Event("cardPaymentAnswered", <<"submitOrder">>, came)
                    /\ UNCHANGED uiVars
               ELSE /\ IF again_ THEN UNCHANGED flights ELSE Settle(f)
                    /\ SetState("select", giftCardNumber, giftCardBalance, FALSE, msg)
                    /\ ev' = Event("cardPaymentAnswered", <<>>, came)
            /\ UNCHANGED <<route, alert>>

cardPaymentAnswered_Retry == CardPaymentAnswered(TRUE)
cardPaymentAnswered == CardPaymentAnswered(FALSE)

\* handleCardPayment without its catch and finally blocks: a submission that
\* throws leaves the screen as it is.
cardOrderSubmitted_NoFinally ==
    \E o \in SubmitOutcomes :
        LET f == Flight("submitOrder", "card", <<>>)
        IN  /\ f \in InFlight
            /\ Settle(f)
            /\ IF o.kind = "return" /\ o.ok
               THEN /\ route' = "order-complete"
                    /\ SetState(paymentStep, giftCardNumber, giftCardBalance, FALSE, error)
                    /\ ev' = Event("cardOrderSubmitted", <<"router.replace">>, Came(o))
               ELSE /\ IF o.kind = "return"
                       THEN SetState("select", giftCardNumber, giftCardBalance, FALSE,
                                     Str("Order submission failed. Please try again."))
                       ELSE UNCHANGED uiVars
                    /\ ev' = Event("cardOrderSubmitted", <<>>, Came(o))
                    /\ UNCHANGED route
            /\ UNCHANGED alert

\* handleCardPayment after await submitOrder("card", ...).
cardOrderSubmitted ==
    \E o \in SubmitOutcomes :
        LET f == Flight("submitOrder", "card", <<>>)
        IN  /\ f \in InFlight
            /\ Settle(f)
            /\ IF o.kind = "return" /\ o.ok
               THEN /\ route' = "order-complete"
                    /\ SetState(paymentStep, giftCardNumber, giftCardBalance, FALSE, error)
                    /\ ev' = Event("cardOrderSubmitted", <<"router.replace">>, Came(o))
               ELSE /\ SetState("select", giftCardNumber, giftCardBalance, FALSE,
                                IF o.kind = "return"
                                THEN Str("Order submission failed. Please try again.")
                                ELSE MessageOf(o.text, "Payment failed. Please try again."))
                    /\ ev' = Event("cardOrderSubmitted", <<>>, Came(o))
                    /\ UNCHANGED route
            /\ UNCHANGED alert

\* "Gift Card" button of the select step.
selectGiftCard ==
    /\ Interactive /\ paymentStep = "select"
    /\ SetState("gift_card_method_select", giftCardNumber, giftCardBalance, isProcessing, error)
    /\ ev' = Event("selectGiftCard", <<>>, "")
    /\ UNCHANGED <<route, alert, flights>>

\* "Scan Gift Card QR" and "Swipe Gift Card" of the method step.
GiftCardScan(handler, method) ==
    /\ Interactive /\ paymentStep = "gift_card_method_select" /\ CanAwait
    /\ SetState("gift_card_processing", giftCardNumber, giftCardBalance, TRUE, NULL)
    /\ Await(Flight("doGift", method, <<>>))
    /\ ev' = Sends(handler, "doGift", RequestFor(method))
    /\ UNCHANGED <<route, alert>>

handleGiftCardQR == GiftCardScan("handleGiftCardQR", "qr")

handleGiftCardSwipe == GiftCardScan("handleGiftCardSwipe", "swipe")

\* handleGiftCardQR / handleGiftCardSwipe after await PaxBridgeService.doGift(...).
giftCardScanAnswered ==
    \E method \in {"qr", "swipe"}, r \in TerminalReplies, a \in AccountValues :
        LET f == Flight("doGift", method, <<>>)
            res == doGift(r)
            cardNum == IF res.isSuccess /\ a.present THEN a.text ELSE <<>>
            msg == IF ~res.isSuccess
                   THEN Coalesce(res.responseMessage,
                                 Str(IF method = "qr" THEN "QR scan failed" ELSE "Swipe failed"))
                   ELSE Str("No gift card data returned")
        IN  /\ f \in InFlight
            /\ res.isSuccess \/ a = NoAccount
            /\ Settle(f)
            /\ IF res.isSuccess /\ cardNum # <<>>
               THEN /\ SetState("gift_card_entry", cardNum, giftCardBalance, FALSE, error)
                    /\ ev' = Event("giftCardScanAnswered", <<>>, "ok")
               ELSE /\ SetState("gift_card_method_select", giftCardNumber, giftCardBalance,
                                FALSE, msg)
                    /\ ev' = Event("giftCardScanAnswered", <<>>,
                                IF res.isSuccess THEN "nodata" ELSE "failed")
            /\ UNCHANGED <<route, alert>>

\* "Enter Manually" of the method step.
enterManually ==
    /\ Interactive /\ paymentStep = "gift_card_method_select"
    /\ SetState("gift_card_entry", giftCardNumber, giftCardBalance, isProcessing, error)
    /\ ev' = Event("enterManually", <<>>, "")
    /\ UNCHANGED <<route, alert, flights>>

\* The number field of the entry step: onChangeText.
onChangeText ==
    \E t \in CardTexts :
        /\ Interactive /\ paymentStep = "gift_card_entry"
        /\ t # giftCardNumber
        /\ SetState(paymentStep, t, NoBalance, isProcessing, NULL)
        /\ ev' = Event("onChangeText", <<>>, "")
        /\ UNCHANGED <<route, alert, flights>>

\* The body of handleGiftCardBalanceCheck up to its await.
BalanceCheckStarts ==
    IF NumberRefused(giftCardNumber)
    THEN /\ SetState(paymentStep, giftCardNumber, giftCardBalance, isProcessing,
                     Str("Please enter a valid gift card number"))
         /\ ev' = Event("handleGiftCardBalanceCheck", <<>>, "")
         /\ UNCHANGED <<route, alert, flights>>
    ELSE /\ CanAwait
         /\ SetState(paymentStep, giftCardNumber, giftCardBalance, TRUE, NULL)
         /\ Await(Flight("checkBalance", "check", giftCardNumber))
         /\ ev' = Event("handleGiftCardBalanceCheck", <<"checkBalance">>, "")
         /\ UNCHANGED <<route, alert>>

\* Primary button of the entry step while it reads "Check Balance".
handleGiftCardBalanceCheck ==
    /\ Interactive /\ paymentStep = "gift_card_entry"
    /\ ~isProcessing /\ ~PrimaryIsRedeem
    /\ BalanceCheckStarts

\* handleGiftCardBalanceCheck after await GiftCardService.checkBalance(...).
balanceCheckAnswered ==
    \E n \in CardTexts, o \in BalanceOutcomes :
        LET f == Flight("checkBalance", "check", n)
        IN  /\ f \in InFlight
            /\ Settle(f)
            /\ IF o.kind = "return" /\ o.ok
               THEN SetState(paymentStep, giftCardNumber, Balance(o.amount), FALSE,
                             IF o.amount < GrandTotal THEN Str("Insufficient balance")
                             ELSE error)
               ELSE SetState(paymentStep, giftCardNumber, giftCardBalance, FALSE,
                             IF o.kind = "throw" THEN Str("Failed to check gift card balance.")
                             ELSE Str("Unable to verify gift card."))
            /\ ev' = Event("balanceCheckAnswered", <<>>, Came(o))
            /\ UNCHANGED <<route, alert>>

\* The body of handleGiftCardRedeem up to its await.
RedeemStarts ==
    IF RedeemBlocked(giftCardBalance)
    THEN /\ SetState(paymentStep, giftCardNumber, giftCardBalance, isProcessing,
                     Str("Insufficient gift card balance."))
         /\ ev' = Event("handleGiftCardRedeem", <<>>, "")
         /\ UNCHANGED <<route, alert, flights>>
    ELSE /\ CanAwait
         /\ SetState("gift_card_processing", giftCardNumber, giftCardBalance, TRUE, NULL)
         /\ Await(Flight("redeem", "redeem", <<>>))
         /\ ev' = Event("handleGiftCardRedeem", <<"redeem">>, "")
         /\ UNCHANGED <<route, alert>>

\* Primary button of the entry step while it reads "Pay".
handleGiftCardRedeem ==
    /\ Interactive /\ paymentStep = "gift_card_entry"
    /\ ~isProcessing /\ PrimaryIsRedeem
    /\ RedeemStarts

\* handleGiftCardRedeem after await GiftCardService.redeem(...): on to the
\* order submission, or to step back with an error.
RedeemAnsweredTo(back) ==
    \E o \in RedeemOutcomes :
        LET f == Flight("redeem", "redeem", <<>>)
        IN  /\ f \in InFlight
            /\ IF o.kind = "return" /\ o.ok
               THEN /\ Continue(f, Flight("submitOrder", "redeem", <<>>))
                    /\ ev' = Event("redeemAnswered", <<"submitOrder">>, Came(o))
                    /\ UNCHANGED uiVars
               ELSE /\ Settle(f)
                    /\ SetState(back, giftCardNumber, giftCardBalance, FALSE,
                                IF o.kind = "throw" THEN Str("Gift card payment failed.")
                                ELSE Coalesce(o.text, Str("Gift card redemption failed.")))
                    /\ ev' = Event("redeemAnswered", <<>>, Came(o))
            /\ UNCHANGED <<route, alert>>

redeemAnswered_ToSelect == RedeemAnsweredTo("select")
redeemAnswered == RedeemAnsweredTo("gift_card_entry")

\* handleGiftCardRedeem after await submitOrder("gift_card", ...).
giftOrderSubmitted ==
    \E o \in SubmitOutcomes :
        LET f == Flight("submitOrder", "redeem", <<>>)
        IN  /\ f \in InFlight
            /\ Settle(f)
            /\ IF o.kind = "return" /\ o.ok
               THEN /\ route' = "order-complete"
                    /\ SetState(paymentStep, giftCardNumber, giftCardBalance, FALSE, error)
                    /\ ev' = Event("giftOrderSubmitted", <<"router.replace">>, Came(o))
               ELSE /\ IF o.kind = "return"
                       THEN SetState("select", giftCardNumber, giftCardBalance, FALSE,
                                     Str("Order submission failed."))
                       ELSE SetState("gift_card_entry", giftCardNumber, giftCardBalance, FALSE,
                                     Str("Gift card payment failed."))
                    /\ ev' = Event("giftOrderSubmitted", <<>>, Came(o))
                    /\ UNCHANGED route
            /\ UNCHANGED alert

\* The header's back button as the earlier screen had it: when idle it
\* always leaves the screen.
handleCancel_Legacy ==
    /\ Interactive
    /\ IF isProcessing
       THEN /\ alert' = TRUE
            /\ ev' = Event("handleCancel", <<"Alert.alert">>, "")
            /\ UNCHANGED <<uiVars, route>>
       ELSE /\ route' = "back"
            /\ ev' = Event("handleCancel", <<"router.back">>, "")
            /\ UNCHANGED <<uiVars, alert>>
    /\ UNCHANGED flights

\* The header's back button.
handleCancel ==
    /\ Interactive
    /\ IF isProcessing
       THEN /\ alert' = TRUE
            /\ ev' = Event("handleCancel", <<"Alert.alert">>, "")
            /\ UNCHANGED <<uiVars, route>>
       ELSE IF paymentStep # "select"
       THEN /\ SetState("select", giftCardNumber, giftCardBalance, isProcessing, NULL)
            /\ ev' = Event("handleCancel", <<>>, "")
            /\ UNCHANGED <<route, alert>>
       ELSE /\ route' = "back"
            /\ ev' = Event("handleCancel", <<"router.back">>, "")
            /\ UNCHANGED <<uiVars, alert>>
    /\ UNCHANGED flights

\* "No" of the prompt.
cancelDeclined ==
    /\ alert
    /\ alert' = FALSE
    /\ ev' = Event("cancelDeclined", <<>>, "")
    /\ UNCHANGED <<uiVars, route, flights>>

\* "Yes, Cancel" as the earlier screen had it: the state is reset at once
\* and the terminal is not told.
cancelConfirmed_Legacy ==
    /\ alert
    /\ alert' = FALSE
    /\ SetState("select", giftCardNumber, giftCardBalance, FALSE, NULL)
    /\ ev' = Event("cancelConfirmed", <<>>, "")
    /\ UNCHANGED <<route, flights>>

\* "Yes, Cancel" of the prompt, up to await PaxBridgeService.cancel().
cancelConfirmed ==
    /\ alert /\ CanAwait
    /\ alert' = FALSE
    /\ Await(Flight("cancel", "cancel", <<>>))
    /\ ev' = Event("cancelConfirmed", <<"cancel">>, "")
    /\ UNCHANGED <<uiVars, route>>

\* try { await PaxBridgeService.cancel(); } catch {}: the handler goes on
\* however the call settled.
CancelGoesOn_Unguarded(r) == ~r.threw
CancelGoesOn(r) == CleanupOutcome(r).kind \in {"return", "throw"}

\* "Yes, Cancel" after await PaxBridgeService.cancel().
cancelAnswered ==
    \E r \in VoidReplies :
        LET f == Flight("cancel", "cancel", <<>>)
        IN  /\ f \in InFlight
            /\ Settle(f)
            /\ IF CancelGoesOn(r)
               THEN SetState("select", giftCardNumber, giftCardBalance, FALSE, NULL)
               ELSE UNCHANGED uiVars
            /\ ev' = Event("cancelAnswered", <<>>, IF r.threw THEN "threw" ELSE "ok")
            /\ UNCHANGED <<route, alert>>

NextScreen ==
    \/ (handleCardPayment /\ UNCHANGED <<parseVars, adapterVars, mountVars, moduleVars, traceVars>>)
    \/ (cardPaymentAnswered /\ UNCHANGED <<parseVars, adapterVars, mountVars, moduleVars, traceVars>>)
    \/ (cardOrderSubmitted /\ UNCHANGED <<parseVars, adapterVars, mountVars, moduleVars, traceVars>>)
    \/ (selectGiftCard /\ UNCHANGED <<parseVars, adapterVars, mountVars, moduleVars, traceVars>>)
    \/ (handleGiftCardQR /\ UNCHANGED <<parseVars, adapterVars, mountVars, moduleVars, traceVars>>)
    \/ (handleGiftCardSwipe /\ UNCHANGED <<parseVars, adapterVars, mountVars, moduleVars, traceVars>>)
    \/ (giftCardScanAnswered /\ UNCHANGED <<parseVars, adapterVars, mountVars, moduleVars, traceVars>>)
    \/ (enterManually /\ UNCHANGED <<parseVars, adapterVars, mountVars, moduleVars, traceVars>>)
    \/ (onChangeText /\ UNCHANGED <<parseVars, adapterVars, mountVars, moduleVars, traceVars>>)
    \/ (handleGiftCardBalanceCheck /\ UNCHANGED <<parseVars, adapterVars, mountVars, moduleVars, traceVars>>)
    \/ (balanceCheckAnswered /\ UNCHANGED <<parseVars, adapterVars, mountVars, moduleVars, traceVars>>)
    \/ (handleGiftCardRedeem /\ UNCHANGED <<parseVars, adapterVars, mountVars, moduleVars, traceVars>>)
    \/ (redeemAnswered /\ UNCHANGED <<parseVars, adapterVars, mountVars, moduleVars, traceVars>>)
    \/ (giftOrderSubmitted /\ UNCHANGED <<parseVars, adapterVars, mountVars, moduleVars, traceVars>>)
    \/ (handleCancel /\ UNCHANGED <<parseVars, adapterVars, mountVars, moduleVars, traceVars>>)
    \/ (cancelDeclined /\ UNCHANGED <<parseVars, adapterVars, mountVars, moduleVars, traceVars>>)
    \/ (cancelConfirmed /\ UNCHANGED <<parseVars, adapterVars, mountVars, moduleVars, traceVars>>)
    \/ (cancelAnswered /\ UNCHANGED <<parseVars, adapterVars, mountVars, moduleVars, traceVars>>)

InitScreen == ParseIdle /\ AdapterIdle /\ ScreenIdle /\ EffectOver /\ ModuleIdle /\ ClockIdle

SpecScreen == InitScreen /\ [][NextScreen]_vars

\* The screen with handleGiftCardRedeem also called while the primary button
\* reads "Check Balance": the call the handler's own guard is written for.
redeemTriggered ==
    /\ Interactive /\ paymentStep = "gift_card_entry"
    /\ ~isProcessing /\ ~PrimaryIsRedeem
    /\ RedeemStarts

NextHandlers ==
    \/ NextScreen
    \/ (redeemTriggered /\ UNCHANGED <<parseVars, adapterVars, mountVars, moduleVars, traceVars>>)

SpecHandlers == InitScreen /\ [][NextHandlers]_vars

\* Every collaborator call settles: the continuation of a pending await runs
\* once its promise has resolved or rejected. The user's taps are not forced.
CallsSettle ==
    /\ WF_vars(cardPaymentAnswered /\ UNCHANGED <<parseVars, adapterVars, mountVars, moduleVars, traceVars>>)
    /\ WF_vars(cardOrderSubmitted /\ UNCHANGED <<parseVars, adapterVars, mountVars, moduleVars, traceVars>>)
    /\ WF_vars(giftCardScanAnswered /\ UNCHANGED <<parseVars, adapterVars, mountVars, moduleVars, traceVars>>)
    /\ WF_vars(balanceCheckAnswered /\ UNCHANGED <<parseVars, adapterVars, mountVars, moduleVars, traceVars>>)
    /\ WF_vars(redeemAnswered /\ UNCHANGED <<parseVars, adapterVars, mountVars, moduleVars, traceVars>>)
    /\ WF_vars(giftOrderSubmitted /\ UNCHANGED <<parseVars, adapterVars, mountVars, moduleVars, traceVars>>)
    /\ WF_vars(cancelAnswered /\ UNCHANGED <<parseVars, adapterVars, mountVars, moduleVars, traceVars>>)

SpecLive == InitScreen /\ [][NextScreen]_vars /\ CallsSettle

\* The screen from the moment it mounts: the effect initPax runs beside the
\* handlers.  What StorageService.loadSettings() gives: a rejection, no
\* address, the default address '10.0.0.1', or a configured address.
SettingsOutcomes == {"threw", "none", "default", "configured"}

\* ip && ip !== '10.0.0.1'
IpConfigured(o) == o = "configured"

\* Addresses of a configured terminal: texts of one character.
ConfiguredIps == {ip \in IpValues : ip.t = "string" /\ Len(ip.chars) = 1}

\* How the two bridge calls of init settle on this screen.
ConfigureReplies == {ResolvesBool(TRUE), ResolvesBool(FALSE)}
InitReplies == {Rejects(Err("No Android context available. Please try again.")),
                ResolvesText(Approved)}

\* initPax after await StorageService.loadSettings().
settingsLoaded ==
    \E o \in SettingsOutcomes :
        /\ initPax = "loadSettings"
        /\ initPax' = IF IpConfigured(o) THEN "init" ELSE "done"
        /\ ev' = Event("settingsLoaded", IF IpConfigured(o) THEN <<"init">> ELSE <<>>,
                       IF o = "threw" THEN "threw" ELSE "ok")
        /\ UNCHANGED <<uiVars, route, alert, flights, paxInitialized>>

\* initPax after await PaxBridgeService.init(ip, port, 30).
initAnswered ==
    \E ip \in ConfiguredIps, r1 \in ConfigureReplies, r2 \in InitReplies :
        LET ok == initRun(ip, r1, r2).out.bool
        IN  /\ initPax = "init"
            /\ initPax' = "done"
            /\ paxInitialized' = IF route = "payment" THEN ok ELSE paxInitialized
            /\ ev' = Event("initAnswered", <<>>, IF ok THEN "ok" ELSE "failed")
            /\ UNCHANGED <<uiVars, route, alert, flights>>

NextMount ==
    \/ NextScreen
    \/ (settingsLoaded /\ UNCHANGED <<parseVars, adapterVars, moduleVars, traceVars>>)
    \/ (initAnswered /\ UNCHANGED <<parseVars, adapterVars, moduleVars, traceVars>>)

InitMount == ParseIdle /\ AdapterIdle /\ ScreenIdle /\ EffectStarts /\ ModuleIdle /\ ClockIdle

SpecMount == InitMount /\ [][NextMount]_vars

-----------------------------------------------------------------------------
(* Native module as a state machine: its handlers run one at a time, each  *)
(* to completion, against an SDK that may answer, fail or throw.           *)

\* The terminal field once the clean-up of an existing terminal is over:
\* cleared whether or not removeTerminal threw.
ReleasePrior_KeepOnThrow(held, removeThrows) ==
    IF removeThrows THEN held ELSE NoTerminal

ReleasePrior(held, removeThrows) == NoTerminal

\* The handles the SDK still knows once removeTerminal(held) has been tried.
LiveAfterRemove(held, removeThrows) ==
    IF held # NoTerminal /\ ~removeThrows THEN sdk.live \ {held} ELSE sdk.live

nativeSetTcpSetting ==
    \E ip \in NativeIps, p \in {DefaultPort}, removeThrows \in BOOLEAN,
       context \in Contexts, got \in GetTerminalOutcomes,
       gotAgain \in GetTerminalOutcomes :
        LET held == terminal
            cleaned == IF held # NoTerminal
                       THEN ReleasePrior(held, removeThrows) ELSE NoTerminal
            flagged == IF held # NoTerminal THEN FALSE ELSE isInitialized
            released == IF held # NoTerminal THEN <<held>> ELSE <<>>
            live == LiveAfterRemove(held, removeThrows)
            activity == context = "activity"
            ctx == context
            retry == got = "null" /\ activity /\ ctx # "activity"
            final == IF retry THEN gotAgain ELSE got
            fresh == sdk.made + 1
        IN  /\ (ctx # "none" /\ final = "handle") => sdk.made < MaxHandles
            /\ ipAddress' = ip
            /\ port' = p
            /\ IF ctx = "none"
               THEN /\ terminal' = cleaned
                    /\ isInitialized' = flagged
                    /\ sdk' = [sdk EXCEPT !.live = live]
                    /\ nat' = Did("setTcpSetting", held, released, NoTerminal,
                            NativeThrows("No Android context available. Please try again."))
               ELSE IF final = "throws"
               THEN /\ terminal' = IF retry THEN NoTerminal ELSE cleaned
                    /\ isInitialized' = flagged
                    /\ sdk' = [sdk EXCEPT !.live = live]
                    /\ nat' = Did("setTcpSetting", held, released, NoTerminal,
                            NativeThrows("getTerminal failed"))
               ELSE IF final = "null"
               THEN /\ terminal' = NoTerminal
                    /\ isInitialized' = flagged
                    /\ sdk' = [sdk EXCEPT !.live = live]
                    /\ nat' = Did("setTcpSetting", held, released, NoTerminal,
                            NativeThrows("POSLinkSemi.getTerminal returned null. Check that the PAX SDK JARs are correct and the device supports POSLink."))
               ELSE /\ terminal' = fresh
                    /\ isInitialized' = TRUE
                    /\ sdk' = [made |-> fresh, live |-> live \cup {fresh}]
                    /\ nat' = Did("setTcpSetting", held, released, NoTerminal,
                            NativeBool(TRUE))

\* What a handler makes of the SDK terminal's answer: the vendor response as
\* JSON, or an ERROR reply carrying the SDK's or the exception's message.
SdkReply(r, fallback) ==
    IF r.threw THEN ErrorJson(Elvis(r.message, "Error"))
    ELSE IF r.isSuccessful /\ r.response.present
    THEN NativeJson(r.response.code, r.response.message)
    ELSE ErrorJson(Elvis(r.message, fallback))

\* A handler that asks the SDK terminal for something and answers in JSON:
\* it returns early while the module is not initialised or holds no handle,
\* and turns a request that gson cannot read into an ERROR reply.
Handler_Unguarded(name, needsFlag, notInitialized, noTerminal, fallback, readable, r) ==
    /\ nat' = Did(name, terminal, <<>>, terminal,
                  IF ~readable THEN ErrorJson("Malformed JSON") ELSE SdkReply(r, fallback))
    /\ UNCHANGED <<terminal, ipAddress, port, isInitialized, sdk>>

Handler(name, needsFlag, notInitialized, noTerminal, fallback, readable, r) ==
    LET early == (needsFlag /\ ~isInitialized) \/ terminal = NoTerminal
        reply == IF needsFlag /\ ~isInitialized THEN ErrorJson(notInitialized)
                 ELSE IF terminal = NoTerminal THEN ErrorJson(noTerminal)
                 ELSE IF ~readable THEN ErrorJson("Malformed JSON")
                 ELSE SdkReply(r, fallback)
        used == IF early \/ ~readable THEN NoTerminal ELSE terminal
    IN  /\ nat' = Did(name, terminal, <<>>, used, reply)
        /\ UNCHANGED <<terminal, ipAddress, port, isInitialized, sdk>>

nativeInit ==
    \E r \in SdkResults :
        Handler("init", TRUE, "Terminal not initialized. Call setTcpSetting first.",
                "Terminal not initialized", "Init failed", TRUE, r)

nativeHandshake ==
    \E r \in SdkResults :
        /\ nat' = Did("handshake", terminal, <<>>, terminal,
                      NativeBool(terminal # NoTerminal /\ ~r.threw /\ r.isSuccessful))
        /\ UNCHANGED <<terminal, ipAddress, port, isInitialized, sdk>>

nativeCancel ==
    /\ nat' = Did("cancel", terminal, <<>>, terminal, NativeUnit)
    /\ UNCHANGED <<terminal, ipAddress, port, isInitialized, sdk>>

\* A teardown that clears the handle and leaves the flag as it was.
nativeRemove_KeepsFlag ==
    \E removeThrows \in BOOLEAN :
        /\ terminal' = NoTerminal
        /\ sdk' = [sdk EXCEPT !.live = LiveAfterRemove(terminal, removeThrows)]
        /\ nat' = Did("remove", terminal,
                      IF terminal # NoTerminal THEN <<terminal>> ELSE <<>>,
                      NoTerminal, NativeUnit)
        /\ UNCHANGED <<ipAddress, port, isInitialized>>

nativeRemove ==
    \E removeThrows \in BOOLEAN :
        LET held == terminal
            thrown == held # NoTerminal /\ removeThrows
        IN  /\ terminal' = IF thrown THEN held ELSE NoTerminal
            /\ isInitialized' = IF thrown THEN isInitialized ELSE FALSE
            /\ sdk' = [sdk EXCEPT !.live = LiveAfterRemove(held, removeThrows)]
            /\ nat' = Did("remove", held,
                          IF held # NoTerminal THEN <<held>> ELSE <<>>,
                          NoTerminal, NativeUnit)
            /\ UNCHANGED <<ipAddress, port>>

nativeDoCredit ==
    \E readable \in BOOLEAN, r \in SdkResults :
        Handler("doCredit", TRUE, "Not initialized", "Not initialized", "Failed",
                readable, r)

nativeDoDebit ==
    \E readable \in BOOLEAN, r \in SdkResults :
        Handler("doDebit", TRUE, "Not initialized", "Not initialized", "Failed",
                readable, r)

nativeDoGift ==
    \E readable \in BOOLEAN, r \in SdkResults :
        Handler("doGift", TRUE, "Not initialized", "Not initialized", "Failed",
                readable, r)

nativeBatchClose ==
    \E readable \in BOOLEAN, r \in SdkResults :
        Handler("batchClose", FALSE, "Not initialized", "Not initialized", "Failed",
                readable, r)

NextNative ==
    \/ (nativeSetTcpSetting /\ UNCHANGED <<parseVars, adapterVars, screenVars, traceVars>>)
    \/ (nativeInit /\ UNCHANGED <<parseVars, adapterVars, screenVars, traceVars>>)
    \/ (nativeHandshake /\ UNCHANGED <<parseVars, adapterVars, screenVars, traceVars>>)
    \/ (nativeCancel /\ UNCHANGED <<parseVars, adapterVars, screenVars, traceVars>>)
    \/ (nativeRemove /\ UNCHANGED <<parseVars, adapterVars, screenVars, traceVars>>)
    \/ (nativeDoCredit /\ UNCHANGED <<parseVars, adapterVars, screenVars, traceVars>>)
    \/ (nativeDoDebit /\ UNCHANGED <<parseVars, adapterVars, screenVars, traceVars>>)
    \/ (nativeDoGift /\ UNCHANGED <<parseVars, adapterVars, screenVars, traceVars>>)
    \/ (nativeBatchClose /\ UNCHANGED <<parseVars, adapterVars, screenVars, traceVars>>)

InitNative == ParseIdle /\ AdapterIdle /\ ScreenIdle /\ EffectOver /\ ModuleIdle /\ ClockIdle

SpecNative == InitNative /\ [][NextNative]_vars

-----------------------------------------------------------------------------
(* Payment screen with the wall clock: each attempt reads Date.now() for   *)
(* its trace reference                                                     *)

MaxClock == 1
MaxAttempts == 2

\* const ecrRef = `REF${Date.now()}`: the attempt's trace reference is the
\* clock's reading at the tap; doCredit / doGift pass it on as
\* traceInformation.ecrReferenceNumber.
TraceRefTaken ==
    /\ Len(refs) < MaxAttempts
    /\ refs' = Append(refs, now)
    /\ UNCHANGED now

\* A millisecond passes.
tick ==
    /\ now < MaxClock
    /\ now' = now + 1
    /\ UNCHANGED <<refs, parseVars, adapterVars, screenVars, moduleVars>>

\* The wall clock is set back (time synchronisation, an operator).
clockSetBack ==
    /\ now > 0
    /\ now' = now - 1
    /\ UNCHANGED <<refs, parseVars, adapterVars, screenVars, moduleVars>>

NextTrace ==
    \/ (handleCardPayment /\ TraceRefTaken /\ UNCHANGED <<parseVars, adapterVars, mountVars, moduleVars>>)
    \/ (handleGiftCardQR /\ TraceRefTaken /\ UNCHANGED <<parseVars, adapterVars, mountVars, moduleVars>>)
    \/ (handleGiftCardSwipe /\ TraceRefTaken /\ UNCHANGED <<parseVars, adapterVars, mountVars, moduleVars>>)
    \/ (cardPaymentAnswered /\ UNCHANGED <<parseVars, adapterVars, mountVars, moduleVars, traceVars>>)
    \/ (cardOrderSubmitted /\ UNCHANGED <<parseVars, adapterVars, mountVars, moduleVars, traceVars>>)
    \/ (selectGiftCard /\ UNCHANGED <<parseVars, adapterVars, mountVars, moduleVars, traceVars>>)
    \/ (giftCardScanAnswered /\ UNCHANGED <<parseVars, adapterVars, mountVars, moduleVars, traceVars>>)
    \/ (enterManually /\ UNCHANGED <<parseVars, adapterVars, mountVars, moduleVars, traceVars>>)
    \/ (onChangeText /\ UNCHANGED <<parseVars, adapterVars, mountVars, moduleVars, traceVars>>)
    \/ (handleGiftCardBalanceCheck /\ UNCHANGED <<parseVars, adapterVars, mountVars, moduleVars, traceVars>>)
    \/ (balanceCheckAnswered /\ UNCHANGED <<parseVars, adapterVars, mountVars, moduleVars, traceVars>>)
    \/ (handleGiftCardRedeem /\ UNCHANGED <<parseVars, adapterVars, mountVars, moduleVars, traceVars>>)
    \/ (redeemAnswered /\ UNCHANGED <<parseVars, adapterVars, mountVars, moduleVars, traceVars>>)
    \/ (giftOrderSubmitted /\ UNCHANGED <<parseVars, adapterVars, mountVars, moduleVars, traceVars>>)
    \/ (handleCancel /\ UNCHANGED <<parseVars, adapterVars, mountVars, moduleVars, traceVars>>)
    \/ (cancelDeclined /\ UNCHANGED <<parseVars, adapterVars, mountVars, moduleVars, traceVars>>)
    \/ (cancelConfirmed /\ UNCHANGED <<parseVars, adapterVars, mountVars, moduleVars, traceVars>>)
    \/ (cancelAnswered /\ UNCHANGED <<parseVars, adapterVars, mountVars, moduleVars, traceVars>>)
    \/ tick
    \/ clockSetBack

InitTrace == ParseIdle /\ AdapterIdle /\ ScreenIdle /\ EffectOver /\ ModuleIdle /\ ClockIdle

SpecTrace == InitTrace /\ [][NextTrace]_vars

-----------------------------------------------------------------------------
(* Properties of the response normaliser (checked under SpecParse)         *)

Parsed == pc \in {"parsed", "reparsed"}

\* A populated field: a string that is not empty.
Populated(v) == v.t = "string" /\ v.s # ""

\* A field that carries no value: the key is absent or holds null.
Missing(v) == v.t \in {"undefined", "null"}

TopLevelMissing ==
    /\ Missing(json.f.ResponseCode) /\ Missing(json.f.responseCode)
    /\ Missing(json.f.ResponseMessage) /\ Missing(json.f.responseMessage)

\* The value an alias pair resolves to: the first alias that carries a value.
FirstOf(a, b) == IF Missing(a) THEN b ELSE a

\* C1: whatever the raw mapping, the normalised isSuccess is true exactly
\* when the normalised responseCode is "000000" (first and second pass).
C1_SuccessIffCode000000 ==
    /\ (Parsed /\ result.kind = "return") =>
          (result.value.isSuccess <=> result.value.responseCode = Str("000000"))
    /\ (pc = "reparsed" /\ again.kind = "return") =>
          (again.value.isSuccess <=> again.value.responseCode = Str("000000"))

\* C1 witness: ResponseCode "000000" with no message at all is a success.
C1_Witness ==
    /\ pc = "parsed"
    /\ json.f.ResponseCode = Str("000000")
    /\ json.f.ResponseMessage = UNDEF /\ json.f.responseMessage = UNDEF
    /\ result.kind = "return"
    /\ result.value.isSuccess
    /\ result.value.responseCode = Str("000000")

\* C2: for every raw mapping the normalised responseCode and responseMessage
\* are populated, i.e. non-empty strings (an empty top-level field included).
C2_AlwaysPopulated ==
    (Parsed /\ result.kind = "return") =>
        /\ Populated(result.value.responseCode)
        /\ Populated(result.value.responseMessage)

\* C3: when the top-level code and message are missing and the host block
\* (first alias that carries a value) is a mapping whose host message (first
\* alias that carries a value) is a non-empty text, the normalised message is
\* that host message and the normalised code is the host response code when
\* it has one (a non-empty value), else "DECLINED".
C3_HostBlockOfInput == FirstOf(json.f.hostInformation, json.f.HostInformation)
C3_HostMessageOfInput ==
    FirstOf(C3_HostBlockOfInput.f.hostResponseMessage,
            C3_HostBlockOfInput.f.HostResponseMessage)
C3_HostCodeOfInput ==
    FirstOf(C3_HostBlockOfInput.f.hostResponseCode,
            C3_HostBlockOfInput.f.HostResponseCode)
C3_Applies ==
    /\ Parsed
    /\ TopLevelMissing
    /\ C3_HostBlockOfInput.t = "object"
    /\ Populated(C3_HostMessageOfInput)

C4_Applies ==
    /\ Parsed
    /\ TopLevelMissing
    /\ Missing(json.f.hostInformation) /\ Missing(json.f.HostInformation)

C4_EmptyGivesUnknownError ==
    C4_Applies =>
        /\ result.kind = "return"
        /\ result.value.responseCode = Str("ERROR")
        /\ result.value.responseMessage = Str("Unknown Error")
        /\ result.value.isSuccess = FALSE

\* C4 witness: the empty mapping {} has been normalised.
C4_Witness ==
    /\ pc = "parsed"
    /\ json = EmptyObject
    /\ result.value.responseCode = Str("ERROR")
    /\ result.value.responseMessage = Str("Unknown Error")

\* C5: normalising a normalised result again returns the same responseCode,
\* responseMessage and isSuccess.
C5_Idempotent ==
    pc = "reparsed" =>
        /\ again.kind = "return"
        /\ again.value.responseCode = result.value.responseCode
        /\ again.value.responseMessage = result.value.responseMessage
        /\ again.value.isSuccess = result.value.isSuccess

\* C5 witness: an approved result has been normalised twice and is still
\* approved.
C5_Witness ==
    /\ pc = "reparsed"
    /\ json.f.ResponseCode = Str("000000")
    /\ json.f.responseCode = UNDEF
    /\ result.value.isSuccess
    /\ again.value.isSuccess

\* C6: parseResponse never throws on a raw mapping and always returns a
\* complete result; host blocks that are missing, null, empty or not a
\* mapping contribute nothing (with nothing at top level the result is the
\* ERROR / Unknown Error default).
C6_Unusable(h) == h.t # "object" \/ h.f = NoHostFields

C6_NeverThrows ==
    Parsed =>
        /\ result.kind = "return"
        /\ result.value.responseCode.t = "string"
        /\ result.value.responseMessage.t = "string"
        /\ result.value.isSuccess \in BOOLEAN
        /\ result.value.rawData = json
        /\ (/\ TopLevelMissing
            /\ C6_Unusable(json.f.hostInformation)
            /\ C6_Unusable(json.f.HostInformation))
           => /\ result.value.responseCode = Str("ERROR")
              /\ result.value.responseMessage = Str("Unknown Error")

\* C6 witness: a number where the host block should be, nothing else.
C6_Witness ==
    /\ pc = "parsed"
    /\ TopLevelMissing
    /\ json.f.hostInformation = HostPrim(Num("7"))
    /\ json.f.HostInformation = NoHost
    /\ result.kind = "return"
    /\ result.value.responseCode = Str("ERROR")

-----------------------------------------------------------------------------
(* Properties of the terminal session adapter (checked under Spec)         *)

\* The reply of the i-th vendor bridge call of the last operation.
ReplyOf(i) == opCalls[i].reply

\* C7: doCreditRequest and doGiftRequest never reject; when the vendor call
\* throws, or its reply is not JSON, or the reply is JSON null (normalising
\* it throws), the result is responseCode "ERROR", isSuccess false and an
\* empty rawData.
C7_RequestFailed ==
    \/ ReplyOf(1).threw
    \/ ~ReplyOf(1).parses
    \/ ReplyOf(1).value = JsonNull

C7_RequestsNeverReject ==
    op.name \in {"doCreditRequest", "doGiftRequest"} =>
        /\ outcome.kind = "return"
        /\ C7_RequestFailed =>
              /\ outcome.res.responseCode = Str("ERROR")
              /\ outcome.res.isSuccess = FALSE
              /\ outcome.res.rawData = EmptyObject

\* C7 witness: the vendor gift call replied with JSON null and the request
\* resolved with the synthetic ERROR result.
C7_Witness ==
    /\ op.name = "doGiftRequest"
    /\ ~ReplyOf(1).threw /\ ReplyOf(1).parses /\ ReplyOf(1).value = JsonNull
    /\ outcome.kind = "return"
    /\ outcome.res.responseCode = Str("ERROR")
    /\ outcome.res.rawData = EmptyObject

\* C8: setTcpSetting called with the empty address string returns false and
\* makes no vendor bridge call.
C8_EmptyAddressRefused ==
    (op.name = "setTcpSetting" /\ op.ip.t = "string" /\ op.ip.chars = <<>>) =>
        /\ outcome = Resolved(FALSE)
        /\ opCalls = <<>>

\* C8 witness: setTcpSetting("") has returned false.
C8_Witness ==
    /\ op.name = "setTcpSetting"
    /\ op.ip = [t |-> "string", chars |-> <<>>]
    /\ outcome.kind = "return" /\ outcome.bool = FALSE
    /\ opCalls = <<>>

\* C9: when the vendor connection-setup call fails, setTcpSetting rejects
\* with the vendor's own error instead of returning false.
C9_VendorFailed ==
    /\ op.name = "setTcpSetting"
    /\ Len(opCalls) = 1
    /\ ReplyOf(1).threw

C9_SetupFailurePropagates ==
    C9_VendorFailed =>
        /\ outcome.kind = "throw"
        /\ outcome.error = ReplyOf(1).error

\* C9 witness: the vendor call rejected with an Error and setTcpSetting
\* rejected with it.
C9_Witness ==
    /\ C9_VendorFailed
    /\ ReplyOf(1).error.t = "Error"
    /\ outcome.kind = "throw"
    /\ outcome.error = ReplyOf(1).error

\* C10: when the configure step of init returns false, init returns false
\* and the vendor initialize call is not made.
C10_ConfigureReturnedFalse ==
    /\ op.name = "init"
    /\ Len(opCalls) >= 1
    /\ opCalls[1].fn = "setTcpSetting"
    /\ ~ReplyOf(1).threw
    /\ ReplyOf(1).bool = FALSE

C10_InitStopsAfterFailedConfigure ==
    C10_ConfigureReturnedFalse =>
        /\ outcome = Resolved(FALSE)
        /\ \A i \in 1..Len(opCalls) : opCalls[i].fn # "init"

\* C10 witness: init ran, its configure step returned false, init returned
\* false after that single vendor call.
C10_Witness ==
    /\ C10_ConfigureReturnedFalse
    /\ op.ip.t = "string" /\ op.ip.chars = <<"1">>
    /\ outcome.kind = "return" /\ outcome.bool = FALSE
    /\ Len(opCalls) = 1

\* What the response normaliser makes of the vendor initialize reply of the
\* last init run: its responseCode, or UNDEF when there is no such reply or it
\* cannot be normalised.
C11_NormalisedInitCode ==
    IF Len(opCalls) = 2 /\ ~ReplyOf(2).threw /\ ReplyOf(2).parses
    THEN LET n == parseResponse(ReplyOf(2).value)
         IN  IF n.kind = "return" THEN n.value.responseCode ELSE UNDEF
    ELSE UNDEF

\* C11: init returns true exactly when the configure step succeeded and the
\* normalised response code of the vendor initialize reply is "000000".
C11_InitTrueIffNormalisedApproved ==
    op.name = "init" =>
        /\ outcome.kind = "return"
        /\ outcome.bool <=>
              /\ Len(opCalls) >= 1
              /\ ~ReplyOf(1).threw /\ ReplyOf(1).bool
              /\ C11_NormalisedInitCode = Str("000000")

\* C12: when the vendor connection-setup or initialize call throws, init
\* rejects with that error instead of returning false.
C12_InitFailsLoudly ==
    (op.name = "init" /\ Len(opCalls) >= 1 /\ ReplyOf(Len(opCalls)).threw) =>
        /\ outcome.kind = "throw"
        /\ outcome.error = ReplyOf(Len(opCalls)).error

-----------------------------------------------------------------------------
(* Properties of the payment screen (checked under SpecScreen).  A step's  *)
(* effect on the screen is read in the state right after it, which ev      *)
(* names; it is stated for the mounted screen (route "payment"), whose     *)
(* state the setters change.                                               *)

Mounted == route = "payment"
After(name, cames) == ev.name = name /\ ev.came \in cames

\* C13: a card payment started from select shows card_processing with
\* isProcessing true and no error; an approved payment whose order
\* submission returns true leads to the order-complete screen; a declined
\* payment, a thrown error or a submission that returns false leaves a
\* visible error, step select and isProcessing false.
C13_CardPaymentOutcome ==
    /\ After("handleCardPayment", {""}) =>
          paymentStep = "card_processing" /\ isProcessing /\ error = NULL
    /\ After("cardOrderSubmitted", {"ok"}) => route = "order-complete"
    /\ (Mounted /\ (\/ After("cardPaymentAnswered", {"failed"})
                    \/ After("cardOrderSubmitted", {"failed", "threw"}))) =>
          Truthy(error) /\ paymentStep = "select" /\ ~isProcessing

\* An approved card payment whose order submission returned false.
C13_Witness ==
    /\ Mounted /\ After("cardOrderSubmitted", {"failed"})
    /\ error = Str("Order submission failed. Please try again.")
    /\ paymentStep = "select" /\ ~isProcessing

C15_CancelResets ==
    (Mounted /\ After("cancelAnswered", {"ok", "threw"})) =>
        paymentStep = "select" /\ ~isProcessing /\ error = NULL

\* The vendor cancel call threw while the card request was still in flight.
C15_Witness ==
    /\ Mounted /\ After("cancelAnswered", {"threw"})
    /\ Flight("doCredit", "card", <<>>) \in InFlight
    /\ paymentStep = "select" /\ ~isProcessing /\ error = NULL

\* C16: with a request in flight (isProcessing) the back button only opens
\* the prompt; "No" only closes it; "Yes" issues the vendor cancel call
\* exactly once and changes nothing else, and the reset to select is the
\* step in which that cancel call settles.
C16_CancelFlight == Flight("cancel", "cancel", <<>>)
C16_CancellationProtocol ==
    [][/\ (ev'.name = "handleCancel" /\ isProcessing) =>
              alert' /\ ev'.calls = <<"Alert.alert">> /\ UNCHANGED <<uiVars, route, flights>>
       /\ ev'.name = "cancelDeclined" =>
              ~alert' /\ UNCHANGED <<uiVars, route, flights>>
       /\ ev'.name = "cancelConfirmed" =>
              /\ alert /\ ~alert'
              /\ flights' = flights (+) SetToBag({C16_CancelFlight})
              /\ UNCHANGED <<uiVars, route>>
       /\ ev'.name = "cancelAnswered" =>
              /\ C16_CancelFlight \in BagToSet(flights)
              /\ flights' = flights (-) SetToBag({C16_CancelFlight})
              /\ Mounted => paymentStep' = "select" /\ ~isProcessing'
      ]_vars

\* The user has just confirmed: the cancel call is out, the screen still
\* shows the card request as processing.
C16_Witness ==
    /\ After("cancelConfirmed", {""})
    /\ CopiesIn(C16_CancelFlight, flights) = 1
    /\ paymentStep = "card_processing" /\ isProcessing /\ ~alert

\* C17 as stated: with isProcessing false, the back button pops the
\* navigation without a prompt, whatever the step.
C17_IdleBackPops ==
    (After("handleCancel", {""}) /\ ~isProcessing) =>
        route = "back" /\ ~alert

\* C17 amended: with isProcessing false the back button never prompts; in
\* select it pops the navigation and leaves the state alone, in any other
\* step it returns to select and clears the error without leaving the screen.
C17_IdleBackPopsFromSelectOnly ==
    [][(ev'.name = "handleCancel" /\ ~isProcessing) =>
           /\ ~alert'
           /\ IF paymentStep = "select"
              THEN route' = "back" /\ UNCHANGED uiVars
              ELSE /\ route' = "payment" /\ paymentStep' = "select" /\ error' = NULL
                   /\ UNCHANGED <<giftCardNumber, giftCardBalance, isProcessing>>
      ]_vars

\* Back pressed in a gift-card step with a number typed: the screen is in
\* select, still mounted.
C17_Witness ==
    /\ After("handleCancel", {""}) /\ ev.calls = <<>>
    /\ Mounted /\ paymentStep = "select" /\ ~isProcessing /\ error = NULL
    /\ giftCardNumber # <<>>

\* The vendor transaction calls (doCredit, doGift) of the screen in flight.
TransactionsInFlight(b) ==
    LET tx == {f \in BagToSet(b) : f.call \in {"doCredit", "doGift"}}
    IN  BagCardinality([f \in tx |-> b[f]])

\* C18: at most one vendor transaction call of the screen is in flight.
C18_OneTransactionInFlight == TransactionsInFlight(flights) <= 1

\* C19: a vendor transaction call is issued by a tap on Card, Scan or Swipe
\* and by nothing else, one call per tap; the step in which an attempt fails
\* issues no call; and any new call comes from a step of the user or from
\* the success of the call before it.
C19_AttemptTaps == {"handleCardPayment", "handleGiftCardQR", "handleGiftCardSwipe"}
C19_NoAutomaticRetry ==
    [][/\ ev'.name \in C19_AttemptTaps <=>
              TransactionsInFlight(flights') > TransactionsInFlight(flights)
       /\ TransactionsInFlight(flights') <= TransactionsInFlight(flights) + 1
       /\ ev'.came \in {"failed", "nodata", "threw"} =>
              /\ flights' \sqsubseteq flights
              /\ BagCardinality(flights') = BagCardinality(flights) - 1
              /\ ev'.calls = <<>>
       /\ ~(flights' \sqsubseteq flights) => ev'.came \in {"", "ok"}
      ]_vars

\* A declined card payment with nothing left in flight.
C19_Witness ==
    /\ After("cardPaymentAnswered", {"failed"})
    /\ flights = EmptyBag
    /\ Mounted /\ paymentStep = "select"

\* C20: a redeem call is issued only with a checked balance that covers the
\* total; handleGiftCardRedeem called without one sets an error, keeps the
\* step and issues nothing; a balance check that returns less than the total
\* sets the shortfall error.
C20_RedeemFlight == Flight("redeem", "redeem", <<>>)
C20_RedeemBlockedOnShortfall ==
    [][/\ CopiesIn(C20_RedeemFlight, flights') > CopiesIn(C20_RedeemFlight, flights) =>
              /\ ev'.name = "handleGiftCardRedeem"
              /\ giftCardBalance.known /\ giftCardBalance.amount >= GrandTotal
       /\ (/\ ev'.name = "handleGiftCardRedeem"
           /\ ~giftCardBalance.known \/ giftCardBalance.amount < GrandTotal) =>
              /\ Truthy(error') /\ paymentStep' = paymentStep
              /\ flights' = flights /\ ev'.calls = <<>>
       /\ (/\ ev'.name = "balanceCheckAnswered" /\ ev'.came = "ok" /\ Mounted
           /\ giftCardBalance'.amount < GrandTotal) =>
              giftCardBalance'.known /\ error' = Str("Insufficient balance")
      ]_vars

\* handleGiftCardRedeem called with a checked balance below the total.
C20_Witness ==
    /\ After("handleGiftCardRedeem", {""}) /\ ev.calls = <<>>
    /\ giftCardBalance.known /\ giftCardBalance.amount < GrandTotal
    /\ error = Str("Insufficient gift card balance.")
    /\ paymentStep = "gift_card_entry" /\ C20_RedeemFlight \notin InFlight

-----------------------------------------------------------------------------
(* Properties of the screen from its mount (checked under SpecMount)       *)

\* C21: the screen sends a transaction to the terminal only after
\* PaxBridgeService.init has completed successfully on it.
C21_TransactsOnlyAfterInit ==
    [][TransactionsInFlight(flights') > TransactionsInFlight(flights) =>
           initPax = "done" /\ paxInitialized
      ]_vars

-----------------------------------------------------------------------------
(* Further properties of the terminal session adapter (checked under Spec) *)

\* C22: cancel and remove resolve normally however the vendor call settled,
\* a throw included.
C22_CleanupNeverRaises ==
    op.name \in {"cancel", "remove"} => outcome.kind = "return"

\* remove whose vendor call threw.
C22_Witness ==
    /\ op.name = "remove" /\ Len(opCalls) = 1 /\ ReplyOf(1).threw
    /\ outcome.kind = "return"

-----------------------------------------------------------------------------
(* Further properties of the payment screen (checked under SpecScreen)     *)

\* C23: whenever the screen is in select, the gift-card number is empty and
\* the gift-card balance is null.
C23_SelectStartsClean ==
    (Mounted /\ paymentStep = "select") =>
        giftCardNumber = <<>> /\ giftCardBalance = NoBalance

\* The entry methods a bitmap enables.
EnabledMethods(mode) == {k \in DOMAIN mode : mode[k]}
C24_UnknownMethods == {"manual", "debit"}

\* C24 as stated: the QR path sends a bitmap with scan alone enabled, the
\* swipe path one with swipe alone enabled, the card path one with every
\* method enabled, and an unknown method gets the all-methods bitmap.
C24_EntryModesAsStated ==
    /\ After("handleGiftCardQR", {""}) => EnabledMethods(ev.req.EntryMode) = {"scan"}
    /\ After("handleGiftCardSwipe", {""}) => EnabledMethods(ev.req.EntryMode) = {"swipe"}
    /\ After("handleCardPayment", {""}) =>
          EnabledMethods(ev.req.EntryMode) = DOMAIN EntryModePresets["all"]
    /\ \A m \in C24_UnknownMethods : EntryModeFor(m) = EntryModePresets["all"]

\* C24 amended: as stated, but the swipe path's bitmap enables swipe and
\* chip, the two ways of presenting the card's contacts, and nothing else.
C24_EntryModes ==
    /\ After("handleGiftCardQR", {""}) => EnabledMethods(ev.req.EntryMode) = {"scan"}
    /\ After("handleGiftCardSwipe", {""}) => EnabledMethods(ev.req.EntryMode) = {"swipe", "chip"}
    /\ After("handleCardPayment", {""}) =>
          EnabledMethods(ev.req.EntryMode) = {"manual", "swipe", "chip", "contactless", "scan"}
    /\ \A m \in C24_UnknownMethods :
          EnabledMethods(EntryModeFor(m)) = {"manual", "swipe", "chip", "contactless", "scan"}

\* The swipe path has just sent its request.
C24_Witness ==
    /\ After("handleGiftCardSwipe", {""}) /\ ev.calls = <<"doGift">>
    /\ ev.req.EntryMode = EntryMode(FALSE, TRUE, TRUE, FALSE, FALSE)
    /\ paymentStep = "gift_card_processing"

-----------------------------------------------------------------------------
(* Properties of the native module (checked under SpecNative)              *)

Configured == nat.name = "setTcpSetting"

\* C25: once a native setTcpSetting call is over, the handle held before it is
\* no longer held and its release was attempted exactly once (never, if none
\* was held); the module holds exactly the handle just created when the call
\* succeeded and no handle at all when it threw. The field holds one handle
\* or none at any time.
C25_ConfigureReplacesHandle ==
    /\ terminal \in {NoTerminal} \cup Handles
    /\ Configured =>
        /\ nat.held # NoTerminal => terminal # nat.held /\ nat.released = <<nat.held>>
        /\ nat.held = NoTerminal => nat.released = <<>>
        /\ nat.reply.kind \in {"bool", "throw"}
        /\ nat.reply.kind = "bool" =>
              nat.reply.bool /\ terminal = sdk.made /\ terminal # NoTerminal
        /\ nat.reply.kind = "throw" => terminal = NoTerminal

\* A configure call that found a handle, could not release it and could not
\* create another one.
C25_Witness ==
    /\ Configured
    /\ nat.held # NoTerminal
    /\ nat.reply.kind = "throw"
    /\ nat.held \in sdk.live
    /\ terminal = NoTerminal

-----------------------------------------------------------------------------
(* Further properties of the adapter (checked under Spec)                  *)

\* C26: batchClose makes exactly one bridge call, batchClose with the text
\* "{}" as its one argument; it never throws: when the bridge call rejects, or
\* the reply is not JSON, or normalising it throws, it returns a synthetic
\* ERROR result that is not a success, and otherwise it returns the reply as
\* parseResponse normalises it.
C26_BatchClose ==
    op.name = "batchClose" =>
        /\ Len(opCalls) = 1
        /\ opCalls[1].fn = "batchClose"
        /\ opCalls[1].body = "{}"
        /\ outcome.kind = "return"
        /\ LET r == ReplyOf(1)
               normal == parseResponse(r.value)
           IN  IF r.threw
               THEN outcome.res = errorResponse(r.error)
               ELSE IF ~r.parses \/ normal.kind = "throw"
               THEN /\ outcome.res.responseCode = Str("ERROR")
                    /\ ~outcome.res.isSuccess
               ELSE outcome.res = normal.value

\* The bridge rejected the batch close and the caller got an ERROR result.
C26_Witness ==
    /\ op.name = "batchClose"
    /\ ReplyOf(1).threw
    /\ opCalls[1].body = "{}"
    /\ outcome.kind = "return"
    /\ outcome.res.responseCode = Str("ERROR")
    /\ outcome.res.responseMessage = Str("No Android context available. Please try again.")

-----------------------------------------------------------------------------
(* Further properties of the response normaliser (checked under SpecParse) *)

\* The host block of the input is a mapping that carries no host message
\* under either alias.
C27_Applies ==
    /\ Parsed
    /\ TopLevelMissing
    /\ C3_HostBlockOfInput.t = "object"
    /\ Missing(C3_HostBlockOfInput.f.hostResponseMessage)
    /\ Missing(C3_HostBlockOfInput.f.HostResponseMessage)

\* C27: for a raw mapping without top-level code and message whose host block
\* has no host message, the result is ERROR / Unknown Error, whether or not
\* the host block carries a host response code.
C27_HostCodeNeedsHostMessage ==
    C27_Applies =>
        /\ result.kind = "return"
        /\ result.value.responseCode = Str("ERROR")
        /\ result.value.responseMessage = Str("Unknown Error")

\* The top-level code and message as the aliases resolve them: the first alias
\* that carries a value, else the default.
C28_TopCodeOfInput ==
    IF ~Missing(json.f.ResponseCode) THEN json.f.ResponseCode
    ELSE IF ~Missing(json.f.responseCode) THEN json.f.responseCode
    ELSE Str("ERROR")
C28_TopMessageOfInput ==
    IF ~Missing(json.f.ResponseMessage) THEN json.f.ResponseMessage
    ELSE IF ~Missing(json.f.responseMessage) THEN json.f.responseMessage
    ELSE Str("Unknown Error")

C28_Probed ==
    /\ C28_TopCodeOfInput = Str("ERROR")
    /\ C28_TopMessageOfInput = Str("Unknown Error")

\* The input without its HostInformation key.
C28_WithoutUpperHost ==
    Raw(json.f.ResponseCode, json.f.responseCode, json.f.ResponseMessage,
        json.f.responseMessage, json.f.hostInformation, NoHost)

C28_HostOverrides ==
    \/ result.value.responseCode # JSString(C28_TopCodeOfInput)
    \/ result.value.responseMessage # JSString(C28_TopMessageOfInput)

\* C28 as stated: a top-level code that is present, with no top-level message,
\* is never overridden by host information.
C28_PresentCodeNeverOverridden ==
    (/\ Parsed
     /\ ~Missing(json.f.ResponseCode) \/ ~Missing(json.f.responseCode)
     /\ Missing(json.f.ResponseMessage) /\ Missing(json.f.responseMessage))
    => result.value.responseCode = JSString(C28_TopCodeOfInput)

\* C28 (amended): the aliases are resolved by first match in a fixed order.
\* The result's code and message are those of ResponseCode and ResponseMessage
\* when these carry a value, else of responseCode and responseMessage, else the
\* defaults, unless that pair is exactly ("ERROR", "Unknown Error"): only then
\* is the host block probed, and then HostInformation plays no part when
\* hostInformation carries a value. So a present top-level code other than
\* "ERROR" with an absent message is never overridden by host information.
C28_AliasOrder ==
    Parsed =>
        /\ result.kind = "return"
        /\ ~C28_Probed => ~C28_HostOverrides
        /\ (C28_Probed /\ ~Missing(json.f.hostInformation)) =>
              LET lower == parseResponse(C28_WithoutUpperHost).value
              IN  /\ result.value.responseCode = lower.responseCode
                  /\ result.value.responseMessage = lower.responseMessage
                  /\ result.value.isSuccess = lower.isSuccess

\* Both host blocks carry a message and the top-level pair is the default
\* one: the message of hostInformation is the one that is adopted.
C28_Witness ==
    /\ Parsed
    /\ C28_Probed
    /\ json.f.ResponseCode = Str("ERROR")
    /\ json.f.hostInformation = HostObj(Str("DO NOT HONOR"), UNDEF, UNDEF, Str("51"))
    /\ json.f.HostInformation = HostObj(UNDEF, Str("PICK UP CARD"), UNDEF, Str("04"))
    /\ result.value.responseMessage = Str("DO NOT HONOR")
    /\ result.value.responseCode = Str("51")

-----------------------------------------------------------------------------
(* Further properties of the payment screen (checked under SpecScreen)     *)

\* C29: a QR or swipe scan starts from gift_card_method_select and shows
\* gift_card_processing with isProcessing true; when the answer is a success
\* carrying an account number, the gift-card number is set and the step is
\* gift_card_entry; when the call failed or carried no account number, the
\* screen has an error, the gift-card number is the one it was and the step is
\* gift_card_method_select; either way isProcessing is false. "Enter Manually"
\* goes to gift_card_entry and calls nothing.
C29_GiftCardScanStep ==
    [][/\ ev'.name \in {"handleGiftCardQR", "handleGiftCardSwipe"} =>
            /\ paymentStep = "gift_card_method_select"
            /\ paymentStep' = "gift_card_processing" /\ isProcessing'
            /\ ev'.calls = <<"doGift">>
       /\ (ev'.name = "giftCardScanAnswered" /\ Mounted) =>
            /\ ~isProcessing'
            /\ ev'.came = "ok" =>
                  giftCardNumber' # <<>> /\ paymentStep' = "gift_card_entry"
            /\ ev'.came # "ok" =>
                  /\ Truthy(error')
                  /\ giftCardNumber' = giftCardNumber
                  /\ paymentStep' = "gift_card_method_select"
       /\ ev'.name = "enterManually" =>
            /\ paymentStep' = "gift_card_entry"
            /\ ev'.calls = <<>> /\ flights' = flights
      ]_vars

\* The payment call whose approval an order submission of a method follows,
\* and the step that receives its answer.
C30_PaymentFlight(by) ==
    Flight(IF by = "card" THEN "doCredit" ELSE "redeem", by, <<>>)
C30_Answered(by) == IF by = "card" THEN "cardPaymentAnswered" ELSE "redeemAnswered"

\* C30: submitOrder is called for the card method only in the step that
\* received a successful doCredit result, and for the gift-card method only in
\* the step that received a redeem result with a truthy status; each time the
\* answered payment call of that method is the one the submission replaces.
\* The screen goes to order-complete only in the step that received true from
\* submitOrder.
C30_SubmitOnlyAfterApproval ==
    [][/\ \A by \in {"card", "redeem"} :
            LET submit == Flight("submitOrder", by, <<>>)
                paid == C30_PaymentFlight(by)
            IN  CopiesIn(submit, flights') > CopiesIn(submit, flights) =>
                    /\ ev'.name = C30_Answered(by) /\ ev'.came = "ok"
                    /\ CopiesIn(paid, flights') < CopiesIn(paid, flights)
       /\ ev'.calls = <<"submitOrder">> =>
            ev'.name \in {"cardPaymentAnswered", "redeemAnswered"} /\ ev'.came = "ok"
       /\ route' = "order-complete" /\ route # "order-complete" =>
            /\ ev'.name \in {"cardOrderSubmitted", "giftOrderSubmitted"}
            /\ ev'.came = "ok"
            /\ ev'.calls = <<"router.replace">>
      ]_vars

\* A redeemed gift card whose order was submitted: the order-complete screen.
C30_Witness ==
    /\ After("giftOrderSubmitted", {"ok"})
    /\ route = "order-complete"
    /\ ev.calls = <<"router.replace">>

-----------------------------------------------------------------------------
(* Properties of the adapter's init and of the native handlers             *)

\* C32: init called with an address that is empty, blank or undefined returns
\* false and calls neither the bridge's setTcpSetting nor its init.
C32_InitValidatesAddress ==
    (op.name = "init" /\ IpRejected(op.ip)) =>
        /\ outcome = Resolved(FALSE)
        /\ opCalls = <<>>

JsonHandlers == {"init", "doCredit", "doDebit", "doGift", "batchClose"}

\* C33: a handler that finds no handle (setTcpSetting has not succeeded, or
\* the handle has been released since) does not call the SDK terminal: init,
\* doCredit, doDebit, doGift and batchClose answer with a JSON reply whose
\* ResponseCode is "ERROR", handshake answers false and cancel does nothing.
\* None of these handlers ever throws, and the terminal a handler calls is the
\* handle the module held.
C33_NoHandleNoSdkCall ==
    /\ nat.name \in JsonHandlers \cup {"handshake", "cancel"} =>
          nat.reply.kind # "throw" /\ nat.used \in {NoTerminal, nat.held}
    /\ (nat.name \in JsonHandlers /\ nat.held = NoTerminal) =>
          /\ nat.used = NoTerminal
          /\ nat.reply.kind = "json" /\ nat.reply.code = "ERROR"
    /\ (nat.name = "handshake" /\ nat.held = NoTerminal) =>
          nat.used = NoTerminal /\ nat.reply = NativeBool(FALSE)
    /\ (nat.name = "cancel" /\ nat.held = NoTerminal) =>
          nat.used = NoTerminal /\ nat.reply = NativeUnit /\ terminal = NoTerminal

\* A transaction after the handle of an earlier configure call was released.
C33_Witness ==
    /\ nat.name = "doCredit"
    /\ nat.held = NoTerminal
    /\ sdk.made > 0 /\ sdk.live = {}
    /\ nat.reply = ErrorJson("Not initialized")

\* C38: after every handler, isInitialized is true exactly when a terminal
\* handle is held.
C38_InitializedIffHandle == isInitialized <=> terminal # NoTerminal

\* A teardown whose removeTerminal threw: the handle and the flag both stay.
C38_Witness ==
    /\ nat.name = "remove"
    /\ nat.held # NoTerminal /\ terminal = nat.held
    /\ isInitialized

\* C39: once remove is over the module holds no handle and isInitialized is
\* false, whether or not removeTerminal threw.
C39_RemoveReleasesHandle ==
    nat.name = "remove" => terminal = NoTerminal /\ ~isInitialized

-----------------------------------------------------------------------------
(* Properties of the payment screen under interleaved attempts             *)

ProcessingSteps == {"card_processing", "gift_card_processing"}

\* C36: on the mounted screen a processing step implies that isProcessing is
\* true, and isProcessing true implies that a call the screen started is still
\* in flight.
C36_ProcessingFlagTracksCalls ==
    Mounted =>
        /\ paymentStep \in ProcessingSteps => isProcessing
        /\ isProcessing => flights # EmptyBag

\* The steps in which a payment attempt's call (doCredit, doGift, redeem)
\* comes back.
AttemptAnswers == {"cardPaymentAnswered", "giftCardScanAnswered", "redeemAnswered"}

\* C34: when the cancel call of a confirmed cancellation has settled and the
\* call of the cancelled attempt, still in flight, comes back next, that step
\* submits no order and starts no other call, does not leave the screen, sets
\* no error and changes neither paymentStep nor isProcessing.
C34_CancelledAttemptIsInert ==
    [][(Mounted /\ ev.name = "cancelAnswered" /\ ev'.name \in AttemptAnswers) =>
            /\ ev'.calls = <<>>
            /\ UNCHANGED <<route, error, paymentStep, isProcessing>>
      ]_vars

SubmitsInFlight(b) ==
    CopiesIn(Flight("submitOrder", "card", <<>>), b)
        + CopiesIn(Flight("submitOrder", "redeem", <<>>), b)

\* C35: at most one submitOrder call is in flight at any time, and once the
\* screen has gone to order-complete (submitOrder returned true) no step calls
\* submitOrder or navigates to order-complete again.
C35_NoDoubleSubmission ==
    [][/\ SubmitsInFlight(flights') <= 1
       /\ route = "order-complete" =>
            ev'.calls \notin {<<"submitOrder">>, <<"router.replace">>}
      ]_vars

\* C37: a known giftCardBalance is the balance checkBalance returned for the
\* current giftCardNumber. Step by step: a balance check that comes back with
\* a balance was asked about the number the screen holds now, and a step that
\* changes the number leaves no balance behind.
C37_BalanceBelongsToNumber ==
    [][/\ giftCardNumber' # giftCardNumber => giftCardBalance' = NoBalance
       /\ \A n \in CardTexts :
            LET f == Flight("checkBalance", "check", n)
            IN  (/\ Mounted
                 /\ ev'.name = "balanceCheckAnswered" /\ ev'.came = "ok"
                 /\ CopiesIn(f, flights') < CopiesIn(f, flights))
                => n = giftCardNumber'
      ]_vars

\* C31: any two attempts (card, gift QR, gift swipe) started by the screen
\* carry different trace references.
C31_TraceRefsFresh ==
    \A i, j \in DOMAIN refs : i # j => refs[i] # refs[j]

\* C40: provided every collaborator call settles, whenever the screen is in
\* card_processing or gift_card_processing it later shows the order-complete
\* screen or a step that is not a processing step with isProcessing false.
C40_ProcessingEnds ==
    (paymentStep \in ProcessingSteps)
        ~> (\/ route = "order-complete"
            \/ paymentStep \notin ProcessingSteps /\ ~isProcessing)

\* A scan that came back without card data: the method step, not processing.
C40_Witness ==
    /\ Mounted /\ After("giftCardScanAnswered", {"nodata"})
    /\ paymentStep = "gift_card_method_select"
    /\ ~isProcessing

====
